---- MODULE Spec2Model ----
(***************************************************************************)
(* Olist analytics dashboard: the parameterized SQL query layer            *)
(* (utils/data_queries.py), the warehouse client                           *)
(* (utils/bigquery_client.py) and the script run of the dashboard page     *)
(* (streamlit_app.py) with its time-based memoization.                     *)
(***************************************************************************)
EXTENDS Integers, Sequences, FiniteSets, TLC

(***************************************************************************)
(* Part 1.  SQL construction (data_queries.py).                            *)
(* A generated statement is a record: the JOIN clauses in textual order,   *)
(* the predicates of the WHERE clause in textual order, and the LIMIT.     *)
(***************************************************************************)

\* Python's None, as a value comparable with the filter strings.
None == "<None>"

\* LIMIT of a statement that has no LIMIT clause.
NoLimit == 0

\* Python truthiness of an Optional[str]: None and "" are falsy.
Truthy(v) == v # None /\ v # ""

\* `year_filter and year_filter != "All Years"`
YearSelected(year_filter) == Truthy(year_filter) /\ year_filter # "All Years"

\* `region_filter and region_filter != "All Regions"`
RegionSelected(region_filter) == Truthy(region_filter) /\ region_filter # "All Regions"

Join(kind, table, alias) == [kind |-> kind, table |-> table, alias |-> alias]

Pred(alias, col, op, val) == [alias |-> alias, col |-> col, op |-> op, val |-> val]

Statement(joins, where, limit) == [joins |-> joins, where |-> where, limit |-> limit]

\* The join clauses the functions write, verbatim.
DateJoin == Join("JOIN", "dim_date", "d")

CustomerJoin == Join("JOIN", "dim_customers", "c")

SellerJoin == Join("JOIN", "dim_sellers", "s")

ProductJoin == Join("JOIN", "dim_products", "p")

PaymentJoin == Join("JOIN", "dim_payments", "p")

ReviewLeftJoin_inner == Join("JOIN", "dim_reviews", "r")

ReviewLeftJoin == Join("LEFT JOIN", "dim_reviews", "r")

ReviewJoin == Join("JOIN", "dim_reviews", "r")

OrderJoin == Join("JOIN", "dim_orders", "o")

\* f"d.year = {year_filter}"
YearPred(year_filter) == Pred("d", "year", "=", year_filter)

\* f"c.customer_region = '{region_filter}'"
CustomerRegionPred(region_filter) == Pred("c", "customer_region", "=", region_filter)

\* f"s.seller_region = '{region_filter}'"
SellerRegionPred(region_filter) == Pred("s", "seller_region", "=", region_filter)

NotNull(alias, col) == Pred(alias, col, "IS NOT NULL", "")

\* `WHERE 1=1`: a predicate that references no alias.
TruePred == Pred("", "1", "=", "1")

IfSeq(cond, s) == IF cond THEN s ELSE <<>>

get_monthly_sales_trends_allyears(year_filter, region_filter) ==
    Statement(<<DateJoin, CustomerJoin>>,
              <<TruePred>>
                \o IfSeq(Truthy(year_filter), <<YearPred(year_filter)>>)
                \o IfSeq(RegionSelected(region_filter), <<CustomerRegionPred(region_filter)>>),
              NoLimit)

get_monthly_sales_trends(year_filter, region_filter) ==
    Statement(<<DateJoin, CustomerJoin>>,
              <<TruePred>>
                \o IfSeq(YearSelected(year_filter), <<YearPred(year_filter)>>)
                \o IfSeq(RegionSelected(region_filter), <<CustomerRegionPred(region_filter)>>),
              NoLimit)

get_top_products_categories_nojoin(limit, year_filter, region_filter) ==
    Statement(<<ProductJoin>>
                \o IfSeq(YearSelected(year_filter), <<DateJoin>>),
              <<NotNull("p", "product_category_english")>>
                \o IfSeq(YearSelected(year_filter), <<YearPred(year_filter)>>)
                \o IfSeq(RegionSelected(region_filter), <<CustomerRegionPred(region_filter)>>),
              limit)

get_top_products_categories(limit, year_filter, region_filter) ==
    Statement(<<ProductJoin>>
                \o IfSeq(YearSelected(year_filter), <<DateJoin>>)
                \o IfSeq(RegionSelected(region_filter), <<CustomerJoin>>),
              <<NotNull("p", "product_category_english")>>
                \o IfSeq(YearSelected(year_filter), <<YearPred(year_filter)>>)
                \o IfSeq(RegionSelected(region_filter), <<CustomerRegionPred(region_filter)>>),
              limit)

get_sales_by_region(year_filter) ==
    Statement(<<CustomerJoin, SellerJoin>>
                \o IfSeq(YearSelected(year_filter), <<DateJoin>>),
              <<NotNull("c", "customer_region"), NotNull("s", "seller_region")>>
                \o IfSeq(YearSelected(year_filter), <<YearPred(year_filter)>>),
              NoLimit)

get_sales_by_state_dupjoin(year_filter, region_filter) ==
    Statement(<<CustomerJoin>>
                \o IfSeq(YearSelected(year_filter), <<DateJoin>>)
                \o IfSeq(RegionSelected(region_filter), <<CustomerJoin>>),
              <<NotNull("c", "customer_state")>>
                \o IfSeq(YearSelected(year_filter), <<YearPred(year_filter)>>)
                \o IfSeq(RegionSelected(region_filter), <<CustomerRegionPred(region_filter)>>),
              NoLimit)

get_sales_by_state(year_filter, region_filter) ==
    Statement(<<CustomerJoin>>
                \o IfSeq(YearSelected(year_filter), <<DateJoin>>),
              <<NotNull("c", "customer_state")>>
                \o IfSeq(YearSelected(year_filter), <<YearPred(year_filter)>>)
                \o IfSeq(RegionSelected(region_filter), <<CustomerRegionPred(region_filter)>>),
              NoLimit)

get_customer_seller_flow(year_filter) ==
    Statement(<<CustomerJoin, SellerJoin>>
                \o IfSeq(YearSelected(year_filter), <<DateJoin>>),
              <<NotNull("c", "customer_region"), NotNull("s", "seller_region")>>
                \o IfSeq(YearSelected(year_filter), <<YearPred(year_filter)>>),
              NoLimit)

\* get_customer_behavior, get_customer_segmentation and
\* get_customer_frequency_analysis: both dimensions are joined by the first
\* CTE whatever the filters are; the filters only add conditions.
get_customer_behavior(year_filter, region_filter) ==
    Statement(<<CustomerJoin, DateJoin>>,
              IfSeq(YearSelected(year_filter), <<YearPred(year_filter)>>)
                \o IfSeq(RegionSelected(region_filter), <<CustomerRegionPred(region_filter)>>),
              NoLimit)

get_customer_segmentation(year_filter, region_filter) ==
    Statement(<<CustomerJoin, DateJoin>>,
              IfSeq(YearSelected(year_filter), <<YearPred(year_filter)>>)
                \o IfSeq(RegionSelected(region_filter), <<CustomerRegionPred(region_filter)>>),
              NoLimit)

get_customer_frequency_analysis(year_filter, region_filter) ==
    Statement(<<CustomerJoin, DateJoin>>,
              IfSeq(YearSelected(year_filter), <<YearPred(year_filter)>>)
                \o IfSeq(RegionSelected(region_filter), <<CustomerRegionPred(region_filter)>>),
              NoLimit)

get_payment_analysis(year_filter, region_filter) ==
    Statement(<<PaymentJoin>>
                \o IfSeq(YearSelected(year_filter), <<DateJoin>>)
                \o IfSeq(RegionSelected(region_filter), <<CustomerJoin>>),
              IfSeq(YearSelected(year_filter), <<YearPred(year_filter)>>)
                \o IfSeq(RegionSelected(region_filter), <<CustomerRegionPred(region_filter)>>),
              NoLimit)

get_installment_analysis(year_filter, region_filter) ==
    Statement(<<PaymentJoin>>
                \o IfSeq(YearSelected(year_filter), <<DateJoin>>)
                \o IfSeq(RegionSelected(region_filter), <<CustomerJoin>>),
              IfSeq(YearSelected(year_filter), <<YearPred(year_filter)>>)
                \o IfSeq(RegionSelected(region_filter), <<CustomerRegionPred(region_filter)>>),
              NoLimit)

get_seller_performance(year_filter, region_filter) ==
    Statement(<<SellerJoin>>
                \o IfSeq(YearSelected(year_filter), <<DateJoin>>),
              <<NotNull("s", "seller_region")>>
                \o IfSeq(YearSelected(year_filter), <<YearPred(year_filter)>>)
                \o IfSeq(RegionSelected(region_filter), <<SellerRegionPred(region_filter)>>),
              NoLimit)

get_top_sellers(limit, year_filter, region_filter) ==
    Statement(<<SellerJoin>>
                \o IfSeq(YearSelected(year_filter), <<DateJoin>>),
              <<NotNull("s", "seller_region")>>
                \o IfSeq(YearSelected(year_filter), <<YearPred(year_filter)>>)
                \o IfSeq(RegionSelected(region_filter), <<SellerRegionPred(region_filter)>>),
              limit)

get_seller_product_diversity(year_filter, region_filter) ==
    Statement(<<SellerJoin, ProductJoin>>
                \o IfSeq(YearSelected(year_filter), <<DateJoin>>),
              <<NotNull("s", "seller_region"), NotNull("p", "product_category_english")>>
                \o IfSeq(YearSelected(year_filter), <<YearPred(year_filter)>>)
                \o IfSeq(RegionSelected(region_filter), <<SellerRegionPred(region_filter)>>),
              NoLimit)

get_reviews_sales_correlation(year_filter, region_filter) ==
    Statement(<<ReviewLeftJoin>>
                \o IfSeq(YearSelected(year_filter), <<DateJoin>>)
                \o IfSeq(RegionSelected(region_filter), <<CustomerJoin>>),
              IfSeq(YearSelected(year_filter), <<YearPred(year_filter)>>)
                \o IfSeq(RegionSelected(region_filter), <<CustomerRegionPred(region_filter)>>),
              NoLimit)

get_review_score_distribution(year_filter, region_filter) ==
    Statement(<<ReviewLeftJoin>>
                \o IfSeq(YearSelected(year_filter), <<DateJoin>>)
                \o IfSeq(RegionSelected(region_filter), <<CustomerJoin>>),
              IfSeq(YearSelected(year_filter), <<YearPred(year_filter)>>)
                \o IfSeq(RegionSelected(region_filter), <<CustomerRegionPred(region_filter)>>),
              NoLimit)

\* The statement ends the assembled WHERE clause with
\* `AND r.days_to_review IS NOT NULL`.
get_review_timing_analysis(year_filter, region_filter) ==
    Statement(<<ReviewJoin, OrderJoin>>
                \o IfSeq(YearSelected(year_filter), <<DateJoin>>)
                \o IfSeq(RegionSelected(region_filter), <<CustomerJoin>>),
              <<NotNull("r", "review_key")>>
                \o IfSeq(YearSelected(year_filter), <<YearPred(year_filter)>>)
                \o IfSeq(RegionSelected(region_filter), <<CustomerRegionPred(region_filter)>>)
                \o <<NotNull("r", "days_to_review")>>,
              NoLimit)

get_delivery_patterns(year_filter, region_filter) ==
    Statement(<<OrderJoin, CustomerJoin>>
                \o IfSeq(YearSelected(year_filter), <<DateJoin>>),
              <<NotNull("o", "days_to_delivery")>>
                \o IfSeq(YearSelected(year_filter), <<YearPred(year_filter)>>)
                \o IfSeq(RegionSelected(region_filter), <<CustomerRegionPred(region_filter)>>),
              NoLimit)

get_delivery_time_distribution(year_filter, region_filter) ==
    Statement(<<OrderJoin, CustomerJoin>>
                \o IfSeq(YearSelected(year_filter), <<DateJoin>>),
              <<NotNull("o", "days_to_delivery")>>
                \o IfSeq(YearSelected(year_filter), <<YearPred(year_filter)>>)
                \o IfSeq(RegionSelected(region_filter), <<CustomerRegionPred(region_filter)>>),
              NoLimit)

get_delivery_efficiency_analysis(year_filter, region_filter) ==
    Statement(<<OrderJoin, CustomerJoin, SellerJoin>>
                \o IfSeq(YearSelected(year_filter), <<DateJoin>>),
              <<NotNull("o", "days_to_delivery")>>
                \o IfSeq(YearSelected(year_filter), <<YearPred(year_filter)>>)
                \o IfSeq(RegionSelected(region_filter), <<CustomerRegionPred(region_filter)>>),
              NoLimit)

\* The 19 cached query functions, in the order of the module.
QueryFunctions ==
    << "get_monthly_sales_trends", "get_top_products_categories",
       "get_sales_by_region", "get_sales_by_state", "get_customer_seller_flow",
       "get_customer_behavior", "get_customer_segmentation",
       "get_customer_frequency_analysis", "get_payment_analysis",
       "get_installment_analysis", "get_seller_performance", "get_top_sellers",
       "get_seller_product_diversity", "get_reviews_sales_correlation",
       "get_review_score_distribution", "get_review_timing_analysis",
       "get_delivery_patterns", "get_delivery_time_distribution",
       "get_delivery_efficiency_analysis" >>

QueryFunctionSet == {QueryFunctions[i] : i \in 1..Len(QueryFunctions)}

\* Signatures: which functions take `limit`, which take `region_filter`.
TakesLimit(f) == f \in {"get_top_products_categories", "get_top_sellers"}

TakesRegion(f) == f \notin {"get_sales_by_region", "get_customer_seller_flow"}

\* The alias a function's region predicate is written against.
RegionAlias(f) ==
    IF f \in {"get_seller_performance", "get_top_sellers", "get_seller_product_diversity"}
    THEN "s" ELSE "c"

\* The statement function f builds for its arguments.
BuildQuery(f, limit, year_filter, region_filter) ==
    CASE f = "get_monthly_sales_trends" -> get_monthly_sales_trends(year_filter, region_filter)
      [] f = "get_top_products_categories" -> get_top_products_categories(limit, year_filter, region_filter)
      [] f = "get_sales_by_region" -> get_sales_by_region(year_filter)
      [] f = "get_sales_by_state" -> get_sales_by_state(year_filter, region_filter)
      [] f = "get_customer_seller_flow" -> get_customer_seller_flow(year_filter)
      [] f = "get_customer_behavior" -> get_customer_behavior(year_filter, region_filter)
      [] f = "get_customer_segmentation" -> get_customer_segmentation(year_filter, region_filter)
      [] f = "get_customer_frequency_analysis" -> get_customer_frequency_analysis(year_filter, region_filter)
      [] f = "get_payment_analysis" -> get_payment_analysis(year_filter, region_filter)
      [] f = "get_installment_analysis" -> get_installment_analysis(year_filter, region_filter)
      [] f = "get_seller_performance" -> get_seller_performance(year_filter, region_filter)
      [] f = "get_top_sellers" -> get_top_sellers(limit, year_filter, region_filter)
      [] f = "get_seller_product_diversity" -> get_seller_product_diversity(year_filter, region_filter)
      [] f = "get_reviews_sales_correlation" -> get_reviews_sales_correlation(year_filter, region_filter)
      [] f = "get_review_score_distribution" -> get_review_score_distribution(year_filter, region_filter)
      [] f = "get_review_timing_analysis" -> get_review_timing_analysis(year_filter, region_filter)
      [] f = "get_delivery_patterns" -> get_delivery_patterns(year_filter, region_filter)
      [] f = "get_delivery_time_distribution" -> get_delivery_time_distribution(year_filter, region_filter)
      [] f = "get_delivery_efficiency_analysis" -> get_delivery_efficiency_analysis(year_filter, region_filter)

(***************************************************************************)
(* Part 2.  The warehouse client (bigquery_client.py), the memoization of  *)
(* the query functions and one script run of the dashboard                 *)
(* (streamlit_app.py main).                                                *)
(***************************************************************************)

VARIABLES
    now,        \* wall clock, in seconds
    secretsOk,  \* st.secrets holds "gcp_service_account"
    conn,       \* init_connection's cached client: TRUE once one was built
    cache,      \* st.cache_data: key -> [table, at]
    widgets,    \* the page's widget and session state
    pc,         \* position of the script run
    run,        \* what the current script run has done so far
    last,       \* the query-function invocations of the tab that ran last
    hist,       \* history: key -> the last warehouse call made for it
    runs,       \* number of script runs started
    faults,     \* number of non-nominal outcomes drawn so far
    sq,         \* the statement builder applied to drawn arguments
    ev,         \* a query or a computation evaluated on drawn tables
    cl,         \* a process using the warehouse client module
    ld,         \* a run of the CSV loader
    kg          \* a run of the dataset ingestion script

vars == <<now, secretsOk, conn, cache, widgets, pc, run, last, hist, runs, faults,
          sq, ev, cl, ld, kg>>

\* What the dashboard run leaves alone.
offline == <<sq, ev, cl, ld, kg>>

\* The value of a variable in the specifications that do not use it.
Unused == [used |-> FALSE]

dashVars == <<now, secretsOk, conn, cache, widgets, pc, run, last, hist, runs, faults>>

\* @st.cache_data(ttl=600)
TTL == 600

\* Bounds of the model.
MaxRuns == 2

MaxFaults == 1

ResultRows == 3

\* The columns of a query result: those of the statement's select list.
ResultColumns == {"select list"}

\* results.to_dataframe(): the rows of the result under its columns.
to_dataframe(n) == [rows |-> n, columns |-> ResultColumns]

\* pd.DataFrame(): a table of no rows and no columns.
EmptyTable == [rows |-> 0, columns |-> {}]

\* DataFrame.empty: an axis of length 0.
IsEmpty(table) == table.rows = 0 \/ table.columns = {}

init_connection_uncached(connCached, secrets, outcome) ==
    IF ~secrets \/ outcome = "init_fail"
    THEN [ok |-> FALSE, conn |-> connCached, banner |-> TRUE, built |-> FALSE]
    ELSE [ok |-> TRUE, conn |-> TRUE, banner |-> FALSE, built |-> TRUE]

\* init_connection under @st.cache_resource: a client built once is returned
\* from the cache; a missing secret (KeyError) or any other failure raises
\* after st.error, and nothing is stored.  `built`: the credentials and the
\* client were built in this call.
init_connection(connCached, secrets, outcome) ==
    IF connCached THEN [ok |-> TRUE, conn |-> TRUE, banner |-> FALSE, built |-> FALSE]
    ELSE IF ~secrets \/ outcome = "init_fail"
         THEN [ok |-> FALSE, conn |-> FALSE, banner |-> TRUE, built |-> FALSE]
         ELSE [ok |-> TRUE, conn |-> TRUE, banner |-> FALSE, built |-> TRUE]

\* What execute_query does when a step after init_connection has failed.
QueryFailed(ic, submits) ==
    [raised |-> TRUE, table |-> None, submits |-> submits,
     conn |-> ic.conn, banner |-> TRUE, built |-> ic.built]

execute_query_resubmit(query, connCached, secrets, outcome) ==
    LET ic == init_connection(connCached, secrets, outcome) IN
    IF ~ic.ok THEN QueryFailed(ic, 0)
    ELSE IF outcome \in {"query_fail", "result_fail", "df_fail"} THEN QueryFailed(ic, 2)
    ELSE [raised |-> FALSE,
          table |-> to_dataframe(IF outcome = "zero" THEN 0 ELSE ResultRows),
          submits |-> 1, conn |-> ic.conn, banner |-> FALSE, built |-> ic.built]

\* execute_query(query): init_connection, client.query(query), result(),
\* to_dataframe(); any exception is logged, shown with st.error and raised
\* again as Exception.  `submits` counts the client.query calls.
execute_query(query, connCached, secrets, outcome) ==
    LET ic == init_connection(connCached, secrets, outcome) IN
    IF ~ic.ok THEN QueryFailed(ic, 0)
    ELSE IF outcome \in {"query_fail", "result_fail", "df_fail"} THEN QueryFailed(ic, 1)
    ELSE [raised |-> FALSE,
          table |-> to_dataframe(IF outcome = "zero" THEN 0 ELSE ResultRows),
          submits |-> 1, conn |-> ic.conn, banner |-> FALSE, built |-> ic.built]

\* What a query function returns to the cache layer and leaves behind.
Returned(query, ex, raised, table, wcalls) ==
    [raised |-> raised, failed |-> ex.raised, logged |-> ex.raised /\ ~raised,
     table |-> table, wcalls |-> wcalls, submits |-> ex.submits * wcalls,
     conn |-> ex.conn, banner |-> ex.banner, query |-> query]

QueryFunction_noexcept(f, limit, year_filter, region_filter, connCached, secrets, outcome) ==
    LET query == BuildQuery(f, limit, year_filter, region_filter)
        ex == execute_query(query, connCached, secrets, outcome)
    IN  Returned(query, ex, ex.raised, ex.table, 1)

QueryFunction_retry(f, limit, year_filter, region_filter, connCached, secrets, outcome) ==
    LET query == BuildQuery(f, limit, year_filter, region_filter)
        ex == execute_query(query, connCached, secrets, outcome)
    IN  Returned(query, ex, FALSE, IF ex.raised THEN EmptyTable ELSE ex.table,
                 IF ex.raised THEN 2 ELSE 1)

\* The body every query function shares: build the statement, return
\* execute_query(query); `except Exception`: logger.error, return
\* pd.DataFrame().  One execute_query call (`wcalls`) per invocation.
QueryFunction(f, limit, year_filter, region_filter, connCached, secrets, outcome) ==
    LET query == BuildQuery(f, limit, year_filter, region_filter)
        ex == execute_query(query, connCached, secrets, outcome)
    IN  Returned(query, ex, FALSE, IF ex.raised THEN EmptyTable ELSE ex.table, 1)

Key_nolimit(f, limit, year_filter, region_filter) == <<f, NoLimit, year_filter, region_filter>>

\* st.cache_data keys an entry by the function and its argument values.
Key(f, limit, year_filter, region_filter) == <<f, limit, year_filter, region_filter>>

CacheHit_inclusive(c, k, t) == k \in DOMAIN c /\ t - c[k].at <= TTL

\* An entry is served while less than ttl seconds have passed since it was
\* stored.
CacheHit(c, k, t) == k \in DOMAIN c /\ t - c[k].at < TTL

CacheStore_skipfailed(c, k, table, t) ==
    IF table = EmptyTable THEN c
    ELSE [x \in (DOMAIN c) \cup {k} |-> IF x = k THEN [table |-> table, at |-> t] ELSE c[x]]

\* The value a cached function returns is stored under its key, whatever it
\* is.
CacheStore(c, k, table, t) ==
    [x \in (DOMAIN c) \cup {k} |-> IF x = k THEN [table |-> table, at |-> t] ELSE c[x]]

CacheClear_onefunction(c) ==
    [k \in {x \in DOMAIN c : x[1] # "get_monthly_sales_trends"} |-> c[k]]

\* st.cache_data.clear(): every entry of every cached function.
CacheClear(c) == << >>

(***************************************************************************)
(* The page: widgets, tabs and the calls each tab makes.                   *)
(***************************************************************************)

YearOptions == <<"All Years", "2016", "2017", "2018">>

RegionOptions == <<"All Regions", "North", "Northeast", "Southeast", "South", "Central-West">>

TopNOptions == <<10, 15, 20, 25, 30>>

\* Selections the modelled user makes (a bound: a subset of the options).
UserYears == {YearOptions[1], YearOptions[3]}

UserRegions == {RegionOptions[1], RegionOptions[5]}

UserTopN == {TopNOptions[3], TopNOptions[1]}

\* Seconds the modelled user lets pass before interacting again (a bound):
\* just inside and just outside the ttl.
ElapsedChoices == {TTL - 1, TTL}

\* The query functions each tab calls, in call order; the first one is the
\* tab's primary query, whose emptiness selects the no-data warning.
TabCalls ==
    << <<"get_monthly_sales_trends">>,
       <<"get_top_products_categories">>,
       <<"get_sales_by_region", "get_sales_by_state", "get_customer_seller_flow">>,
       <<"get_customer_behavior", "get_customer_segmentation", "get_customer_frequency_analysis">>,
       <<"get_payment_analysis", "get_installment_analysis">>,
       <<"get_seller_performance", "get_top_sellers", "get_seller_product_diversity">>,
       <<"get_reviews_sales_correlation", "get_review_score_distribution", "get_review_timing_analysis">>,
       <<"get_delivery_patterns", "get_delivery_time_distribution", "get_delivery_efficiency_analysis">> >>

NumTabs == Len(TabCalls)

Tabs == 1..NumTabs

RECURSIVE SumLens(_, _)
SumLens(seqs, i) == IF i = 0 THEN 0 ELSE Len(seqs[i]) + SumLens(seqs, i - 1)

\* Number of query-function call sites of one script run.
NumCallSites == SumLens(TabCalls, NumTabs)

\* The arguments the page passes to f.
LimitArg(f, w) ==
    IF f = "get_top_products_categories" THEN w.top_n
    ELSE IF f = "get_top_sellers" THEN w.top_n_sellers
    ELSE NoLimit

RegionArg(f, w) == IF TakesRegion(f) THEN w.region ELSE None

KeyOf(f, w) == Key(f, LimitArg(f, w), w.year, RegionArg(f, w))

\* The outcomes of one warehouse round trip.
Outcomes == {"rows", "zero", "init_fail", "query_fail", "result_fail", "df_fail"}

At(t) == [phase |-> "tab", tab |-> t]

Phase(p) == [phase |-> p, tab |-> 0]

\* After tab t: the next `with tabN:` block, or the footer.
AfterTab(t) == IF t < NumTabs THEN At(t + 1) ELSE Phase("footer")

TabBoundary_propagates(t) == [status |-> "error", caught |-> FALSE]

\* `except Exception as e: st.error(...)` around each tab body: the
\* exception ends this tab's body with the tab's error message and the
\* script goes on.
TabBoundary(t) == [status |-> "error", caught |-> TRUE]

NewRun(kind) ==
    [kind |-> kind, calls |-> 0, submits |-> 0, invocations |-> 0, called |-> {},
     status |-> [t \in Tabs |-> "pending"],
     primaryEmpty |-> {}, primaryFailed |-> {}, errBanner |-> {},
     footer |-> FALSE]

InitWidgets ==
    [year |-> YearOptions[1], region |-> RegionOptions[1],
     top_n |-> TopNOptions[3], top_n_sellers |-> TopNOptions[3],
     show_mobile_hint |-> TRUE]

NoStatementYet ==
    [f |-> QueryFunctions[1], limit |-> NoLimit, year |-> None, region |-> None,
     built |-> FALSE, stmt |-> Statement(<<>>, <<>>, NoLimit)]

Init ==
    /\ now = 0
    /\ secretsOk \in BOOLEAN
    /\ conn = FALSE
    /\ cache = << >>
    /\ widgets = InitWidgets
    /\ pc = Phase("idle")
    /\ run = NewRun("none")
    /\ last = << >>
    /\ hist = << >>
    /\ runs = 0
    /\ faults = 0
    /\ sq = NoStatementYet
    /\ ev = Unused /\ cl = Unused /\ ld = Unused /\ kg = Unused

(***************************************************************************)
(* A user action re-runs the script from the top: header, sidebar (the     *)
(* Refresh Data button clears the cache there), then the eight tabs.       *)
(* Time passes while the user waits (OtherInteraction: an interaction that *)
(* changes no argument); the script itself runs in no time.                *)
(***************************************************************************)

Idle == pc.phase = "idle"

\* The script body up to the tabs, for a run triggered by `kind`.
StartRun(kind, w, c, h, dt) ==
    /\ Idle
    /\ runs < MaxRuns
    /\ runs' = runs + 1
    /\ now' = now + dt
    /\ widgets' = w
    /\ cache' = c
    /\ hist' = h
    /\ run' = NewRun(kind)
    /\ pc' = At(1)
    /\ UNCHANGED <<secretsOk, conn, last, faults, offline>>

\* History of st.cache_data.clear(): every earlier warehouse call now lies
\* before a clear.
MarkCleared(h) == [k \in DOMAIN h |-> [h[k] EXCEPT !.cleared = TRUE]]

LoadPage ==
    /\ runs = 0
    /\ StartRun("load", widgets, cache, hist, 0)

OtherInteraction ==
    /\ runs > 0
    /\ \E dt \in ElapsedChoices : StartRun("other", widgets, cache, hist, dt)

\* `if st.button("Refresh Data"): st.cache_data.clear()`
PressRefresh ==
    /\ runs > 0
    /\ StartRun("refresh", widgets, CacheClear(cache), MarkCleared(hist), 0)

ChangeYear ==
    /\ runs > 0
    /\ \E y \in UserYears \ {widgets.year} :
          StartRun("year", [widgets EXCEPT !.year = y], cache, hist, 0)

ChangeRegion ==
    /\ runs > 0
    /\ \E r \in UserRegions \ {widgets.region} :
          StartRun("region", [widgets EXCEPT !.region = r], cache, hist, 0)

ChangeTopN ==
    /\ runs > 0
    /\ \E n \in UserTopN \ {widgets.top_n} :
          StartRun("top_n", [widgets EXCEPT !.top_n = n], cache, hist, 0)

ChangeTopNSellers ==
    /\ runs > 0
    /\ \E n \in UserTopN \ {widgets.top_n_sellers} :
          StartRun("top_n_sellers", [widgets EXCEPT !.top_n_sellers = n], cache, hist, 0)

\* `if st.button("Got it!"): session_state.show_mobile_hint = False;
\* st.rerun()`: this pass of the script stops before the sidebar.
DismissHint ==
    /\ Idle
    /\ runs > 0
    /\ runs < MaxRuns
    /\ widgets.show_mobile_hint
    /\ now' = now
    /\ runs' = runs + 1
    /\ widgets' = [widgets EXCEPT !.show_mobile_hint = FALSE]
    /\ run' = NewRun("dismiss")
    /\ pc' = Phase("rerun")
    /\ UNCHANGED <<secretsOk, conn, cache, last, hist, faults, offline>>

\* The pass st.rerun() starts: no button is pressed in it.
Rerun ==
    /\ pc.phase = "rerun"
    /\ pc' = At(1)
    /\ UNCHANGED <<now, secretsOk, conn, cache, widgets, run, last, hist, runs, faults, offline>>

\* The script-local state a tab body works on.
Local ==
    [conn |-> conn, cache |-> cache, hist |-> hist, faults |-> faults, run |-> run,
     calls |-> << >>, stopped |-> FALSE, crashed |-> FALSE]

\* An exception reaches the tab's `except Exception`.
Caught(L, t) ==
    [L EXCEPT !.stopped = TRUE,
              !.crashed = ~TabBoundary(t).caught,
              !.run.status[t] = TabBoundary(t).status]

\* Call i of tab t: a cached query function called with the page's filters.
\* `outcome` is what the warehouse round trip does if the call is not served
\* from the cache.
CallQuery(L, t, i, outcome) ==
    LET f == TabCalls[t][i]
        k == KeyOf(f, widgets)
        primary == i = 1
        known == k \in DOMAIN L.hist
        snap == [f |-> f, key |-> k, at |-> now, prevKnown |-> known,
                 prevAt |-> IF known THEN L.hist[k].at ELSE 0,
                 prevCleared |-> IF known THEN L.hist[k].cleared ELSE FALSE]
    IN
    IF L.stopped THEN L
    ELSE IF CacheHit(L.cache, k, now)
    THEN [L EXCEPT
            !.calls = Append(@, snap @@ [hit |-> TRUE, wcalls |-> 0, submits |-> 0,
                                         raised |-> FALSE, failed |-> FALSE,
                                         logged |-> FALSE, table |-> L.cache[k].table]),
            !.run.invocations = @ + 1,
            !.run.called = @ \cup {f},
            !.run.primaryEmpty = IF primary /\ IsEmpty(L.cache[k].table)
                                 THEN @ \cup {t} ELSE @]
    ELSE LET res == QueryFunction(f, k[2], k[3], k[4], L.conn, secretsOk, outcome)
             M == [L EXCEPT
                     !.faults = IF outcome = "rows" THEN @ ELSE @ + 1,
                     !.calls = Append(@, snap @@ [hit |-> FALSE, wcalls |-> res.wcalls,
                                                  submits |-> res.submits,
                                                  raised |-> res.raised,
                                                  failed |-> res.failed,
                                                  logged |-> res.logged,
                                                  table |-> res.table]),
                     !.conn = res.conn,
                     !.hist = IF res.wcalls > 0
                              THEN [x \in (DOMAIN @) \cup {k} |->
                                      IF x = k THEN [at |-> now, cleared |-> FALSE]
                                      ELSE @[x]]
                              ELSE @,
                     !.cache = IF res.raised THEN @ ELSE CacheStore(@, k, res.table, now),
                     !.run.invocations = @ + 1,
                     !.run.called = @ \cup {f},
                     !.run.calls = @ + res.wcalls,
                     !.run.submits = @ + res.submits,
                     !.run.errBanner = IF res.banner THEN @ \cup {t} ELSE @,
                     !.run.primaryFailed = IF primary /\ res.failed THEN @ \cup {t} ELSE @,
                     !.run.primaryEmpty = IF primary /\ ~res.raised /\ IsEmpty(res.table)
                                          THEN @ \cup {t} ELSE @]
         IN IF res.raised THEN Caught(M, t) ELSE M

\* The rest of a tab body: `if not data.empty:` metrics, charts and tables,
\* `else: st.warning("No ... data available for the selected filters.")`.
\* `exc`: the rendering code raises.
Render(L, t, exc) ==
    IF L.stopped THEN L
    ELSE IF t \in L.run.primaryEmpty
    THEN [L EXCEPT !.run.status[t] = "nodata"]
    ELSE IF exc
    THEN Caught([L EXCEPT !.faults = @ + 1], t)
    ELSE [L EXCEPT !.run.status[t] = "rendered"]

\* The outcomes the model draws for call i of tab t: none but the nominal
\* one where no round trip is made or the fault budget is used up; with the
\* secret missing every round trip fails in init_connection, whatever is
\* drawn.
CallOutcomes(L, t, i) ==
    IF \/ L.stopped
       \/ CacheHit(L.cache, KeyOf(TabCalls[t][i], widgets), now)
       \/ L.faults >= MaxFaults
       \/ (~L.conn /\ ~secretsOk)
    THEN {"rows"}
    ELSE IF L.conn THEN Outcomes \ {"init_fail"} ELSE Outcomes

\* Whether the panels of tab t may raise: they are reached with data only.
RenderOutcomes(L, t) ==
    IF L.stopped \/ t \in L.run.primaryEmpty \/ L.faults >= MaxFaults
    THEN {FALSE} ELSE BOOLEAN

\* The states the calls i.. of tab t can leave, from each state of Ls.
RECURSIVE RunCalls(_, _, _)
RunCalls(Ls, t, i) ==
    IF i > Len(TabCalls[t]) THEN Ls
    ELSE RunCalls(UNION {{CallQuery(L, t, i, o) : o \in CallOutcomes(L, t, i)} : L \in Ls},
                  t, i + 1)

\* One `with tabN:` block: its query calls in order, then its panels.
TabBody ==
    /\ pc.phase = "tab"
    /\ \E C \in RunCalls({Local}, pc.tab, 1) :
         \E L \in {Render(C, pc.tab, exc) : exc \in RenderOutcomes(C, pc.tab)} :
           /\ conn' = L.conn
           /\ cache' = L.cache
           /\ hist' = L.hist
           /\ faults' = L.faults
           /\ run' = L.run
           /\ last' = L.calls
           /\ pc' = IF L.crashed THEN Phase("crashed") ELSE AfterTab(pc.tab)
    /\ UNCHANGED <<now, secretsOk, widgets, runs, offline>>

\* The footer after the tabs; the script run is over.
Footer ==
    /\ pc.phase = "footer"
    /\ run' = [run EXCEPT !.footer = TRUE]
    /\ pc' = Phase("idle")
    /\ UNCHANGED <<now, secretsOk, conn, cache, widgets, last, hist, runs, faults, offline>>

Next ==
    \/ LoadPage
    \/ OtherInteraction
    \/ PressRefresh
    \/ ChangeYear
    \/ ChangeRegion
    \/ ChangeTopN
    \/ ChangeTopNSellers
    \/ DismissHint
    \/ Rerun
    \/ TabBody
    \/ Footer

Spec == Init /\ [][Next]_vars

(***************************************************************************)
(* Part 3.  The statement builders applied to every supported argument     *)
(* combination.                                                            *)
(***************************************************************************)

\* year_filter / region_filter values: None (the default), the "all"
\* sentinel and the concrete options of the page.
SqlYears == {None} \cup {YearOptions[i] : i \in 1..Len(YearOptions)}

SqlRegions == {None} \cup {RegionOptions[i] : i \in 1..Len(RegionOptions)}

SqlLimits == {TopNOptions[i] : i \in 1..Len(TopNOptions)}

SqlInputs ==
    {[f |-> f, limit |-> l, year |-> y, region |-> r, built |-> FALSE,
      stmt |-> Statement(<<>>, <<>>, NoLimit)] :
        f \in QueryFunctionSet, l \in SqlLimits \cup {NoLimit},
        y \in SqlYears, r \in SqlRegions}

SqlInit ==
    /\ now = 0
    /\ secretsOk = TRUE
    /\ conn = FALSE
    /\ cache = << >>
    /\ widgets = InitWidgets
    /\ pc = Phase("idle")
    /\ run = NewRun("none")
    /\ last = << >>
    /\ hist = << >>
    /\ runs = 0
    /\ faults = 0
    /\ sq \in {i \in SqlInputs :
                 /\ (i.limit # NoLimit) <=> TakesLimit(i.f)
                 /\ ~TakesRegion(i.f) => i.region = None}
    /\ ev = Unused /\ cl = Unused /\ ld = Unused /\ kg = Unused

\* The query function sq.f builds its statement for the drawn arguments.
BuildStatement ==
    /\ ~sq.built
    /\ sq' = [sq EXCEPT !.built = TRUE,
                        !.stmt = BuildQuery(sq.f, sq.limit, sq.year, sq.region)]
    /\ UNCHANGED <<dashVars, ev, cl, ld, kg>>

SqlNext == BuildStatement

SqlSpec == SqlInit /\ [][SqlNext]_vars

Aliases(stmt) == {stmt.joins[i].alias : i \in 1..Len(stmt.joins)}

YearPreds(stmt) ==
    {i \in 1..Len(stmt.where) :
        stmt.where[i].alias = "d" /\ stmt.where[i].col = "year" /\ stmt.where[i].op = "="}

RegionPreds(stmt) ==
    {i \in 1..Len(stmt.where) :
        /\ stmt.where[i].col \in {"customer_region", "seller_region"}
        /\ stmt.where[i].op = "="}

ConcreteYear(y) == y \notin {None, "All Years"}

ConcreteRegion(r) == r \notin {None, "All Regions"}

\* C1: the generated statement has a year predicate (d.year = the year
\* supplied) iff a concrete year was supplied, and, for the functions that
\* take region_filter, a region predicate (customer_region or seller_region =
\* the region supplied) iff a concrete region was supplied.
C1_FilterPredicates ==
    sq.built =>
      /\ (YearPreds(sq.stmt) # {}) <=> ConcreteYear(sq.year)
      /\ \A i \in YearPreds(sq.stmt) : sq.stmt.where[i].val = sq.year
      /\ (RegionPreds(sq.stmt) # {}) <=> (TakesRegion(sq.f) /\ ConcreteRegion(sq.region))
      /\ \A i \in RegionPreds(sq.stmt) :
            /\ sq.stmt.where[i].val = sq.region
            /\ sq.stmt.where[i].alias = RegionAlias(sq.f)

C1_Witness ==
    /\ sq.built
    /\ sq.f = "get_seller_performance"
    /\ sq.year = "2017"
    /\ sq.region = "South"
    /\ YearPreds(sq.stmt) # {}
    /\ RegionPreds(sq.stmt) # {}

\* C2: no dimension table and no alias is joined twice in one generated
\* statement, whatever the filters are.
C2_JoinedOnce ==
    sq.built =>
      \A i, j \in 1..Len(sq.stmt.joins) :
        i # j => /\ sq.stmt.joins[i].table # sq.stmt.joins[j].table
                 /\ sq.stmt.joins[i].alias # sq.stmt.joins[j].alias

C2_Witness ==
    /\ sq.built
    /\ sq.f = "get_sales_by_state"
    /\ ConcreteRegion(sq.region)
    /\ ConcreteYear(sq.year)
    /\ Cardinality({i \in 1..Len(sq.stmt.joins) : sq.stmt.joins[i] = CustomerJoin}) = 1
    /\ RegionPreds(sq.stmt) # {}

\* C3: every alias a WHERE predicate refers to is introduced by a JOIN of
\* the same statement.
C3_AliasesJoined ==
    sq.built =>
      \A i \in 1..Len(sq.stmt.where) :
        sq.stmt.where[i].alias # "" => sq.stmt.where[i].alias \in Aliases(sq.stmt)

C3_Witness ==
    /\ sq.built
    /\ sq.f = "get_top_products_categories"
    /\ ConcreteRegion(sq.region)
    /\ ConcreteYear(sq.year)
    /\ {"c", "d", "p"} \subseteq Aliases(sq.stmt)
    /\ RegionPreds(sq.stmt) # {} /\ YearPreds(sq.stmt) # {}

(***************************************************************************)
(* Part 4.  Properties of the dashboard run.                               *)
(***************************************************************************)

Invocations == {last[i] : i \in DOMAIN last}

\* An earlier warehouse call for the same function and arguments lies less
\* than TTL seconds back, with no cache clear since.
Fresh(c) == c.prevKnown /\ ~c.prevCleared /\ c.at - c.prevAt < TTL

\* C4: a call whose function and arguments had a warehouse call less than
\* 600 seconds before, with no clear in between, issues no warehouse call
\* (the two calls issue one in total); a call made once 600 seconds have
\* elapsed, after a clear, or for the first time issues exactly one.
C4_CacheTTL ==
    \A c \in Invocations :
      /\ Fresh(c) => c.wcalls = 0 /\ c.hit
      /\ ~Fresh(c) => c.wcalls = 1 /\ ~c.hit

C4_Witness ==
    \E c \in Invocations :
      /\ c.prevKnown /\ ~c.prevCleared
      /\ c.at - c.prevAt = TTL - 1
      /\ c.wcalls = 0

ZeroRowSuccess(c) ==
    QueryFunction(c.key[1], c.key[2], c.key[3], c.key[4], TRUE, TRUE, "zero").table

\* C6 (as claimed): no query function raises, and the table returned after
\* a failure equals the table a successful query of zero rows returns.
C6_EmptyLikeZeroRows ==
    \A c \in Invocations :
      /\ ~c.raised
      /\ c.failed => c.table = ZeroRowSuccess(c)

\* C6 (amended): no query function raises to its caller; when the client
\* initialisation or the query fails, the failure is logged and the function
\* returns pd.DataFrame(), a table without rows and without columns; the
\* `.empty` test reads it like a successful result of zero rows, which
\* differs from it by carrying the columns of the select list.
C6_NeverRaises ==
    /\ pc.phase # "crashed"
    /\ \A c \in Invocations :
         /\ ~c.raised
         /\ c.failed =>
              /\ c.logged
              /\ c.table = EmptyTable
              /\ IsEmpty(c.table) = IsEmpty(ZeroRowSuccess(c))
              /\ c.table.columns # ZeroRowSuccess(c).columns

C6_Witness ==
    \E c \in Invocations : c.failed /\ ~c.raised /\ c.logged /\ c.table = EmptyTable

\* C7 (as claimed): a tab shows its no-data warning only when its primary
\* query succeeded with zero rows, never when the warehouse call failed.
C7_WarningOnlyAfterSuccess ==
    \A t \in Tabs : run.status[t] = "nodata" => t \notin run.primaryFailed

TabFunctions(t) == {TabCalls[t][i] : i \in 1..Len(TabCalls[t])}

Finished(t) == run.status[t] \in {"rendered", "nodata", "error"}

\* C8: the script never stops inside a tab: whatever fails in a tab, every
\* earlier tab has ended in its panels, its warning or its own error message
\* with its query functions called, and a finished run has called every
\* query function, ended every tab and reached the footer.
C8_TabsIndependent ==
    /\ pc.phase # "crashed"
    /\ pc.phase = "tab" =>
         \A u \in 1..(pc.tab - 1) :
            /\ Finished(u)
            /\ run.status[u] # "error" => TabFunctions(u) \subseteq run.called
    /\ pc.phase = "footer" \/ run.footer =>
         /\ \A u \in Tabs : Finished(u)
         /\ \A u \in Tabs : run.status[u] # "error" => TabFunctions(u) \subseteq run.called
         /\ Cardinality({u \in Tabs : run.status[u] = "error"}) <= MaxFaults
    /\ (Idle /\ runs > 0) => run.footer

C8_Witness ==
    /\ run.footer
    /\ run.status[1] = "error"
    /\ \A u \in Tabs \ {1} : run.status[u] = "rendered"
    /\ QueryFunctionSet \subseteq run.called

\* C9 (as claimed): the script run a user action triggers makes at most one
\* call to the warehouse client.
C9_OneCallPerAction == run.calls <= 1

\* C9 (amended): a script run makes at most one warehouse call per query
\* function it invokes, hence at most NumCallSites (19) per user action.
C9_OneCallPerInvocation ==
    /\ run.calls <= run.invocations
    /\ run.invocations <= NumCallSites
    /\ \A c \in Invocations : c.wcalls <= 1

C9_Witness ==
    /\ run.footer
    /\ run.kind = "year"
    /\ run.calls = NumCallSites

\* C10: one invocation of a query function submits at most one statement
\* (client.query), none when served from the cache, and a failed statement
\* is not submitted again.
C10_NoRetry ==
    /\ \A c \in Invocations :
         /\ c.submits <= 1
         /\ c.hit => c.submits = 0
    /\ run.submits <= run.invocations

C10_Witness ==
    \E c \in Invocations : c.failed /\ c.submits = 1 /\ ~c.hit

\* C21: a failed warehouse call is memoized like a successful one.  The
\* column-less empty table is what a failed call returns and only a failed
\* call returns it; it is stored under the call's key at the time of the
\* call; and a call that finds it there less than 600 seconds later, with no
\* clear in between, is served that empty table without a warehouse call,
\* although the warehouse would now answer with rows.
C21_FailureMemoized ==
    [][ pc.phase = "tab" => \A i \in DOMAIN last' :
          LET c == last'[i] IN
          /\ c.failed =>
                /\ ~c.raised /\ ~c.hit /\ c.table = EmptyTable
                /\ c.key \in DOMAIN cache'
                /\ cache'[c.key] = [table |-> EmptyTable, at |-> c.at]
          /\ (~c.hit /\ ~c.failed) => c.table # EmptyTable
          /\ (/\ c.key \in DOMAIN cache
              /\ cache[c.key].table = EmptyTable
              /\ c.at - cache[c.key].at < TTL) =>
                /\ c.hit /\ c.wcalls = 0 /\ c.submits = 0
                /\ c.table = EmptyTable
                /\ cache'[c.key] = cache[c.key]
      ]_vars

C21_Witness ==
    \E c \in Invocations :
      /\ c.hit /\ c.table = EmptyTable /\ c.wcalls = 0
      /\ c.prevKnown /\ ~c.prevCleared
      /\ c.at - c.prevAt = TTL - 1
      /\ faults = MaxFaults

\* The function and the full argument tuple of invocation c under widgets w.
CalledWith(c, w) == <<c.f, LimitArg(c.f, w), w.year, RegionArg(c.f, w)>>

\* C22: cache entries are keyed by function and full argument tuple.  In a
\* tab's step every invocation reads and writes the entry of its own
\* function and arguments only: a hit returns the table stored under that
\* tuple, a miss stores under that tuple, and every other entry stays as it
\* was.  In the run a change of the products tab's Top-N selector starts,
\* only get_top_products_categories calls the warehouse (once, when the new
\* value has no fresh entry), and every other function is served from its
\* entry.
C22_KeyedByFunctionAndArguments ==
    [][ pc.phase = "tab" =>
          /\ \A i \in DOMAIN last' :
                LET c == last'[i] IN
                /\ c.key = CalledWith(c, widgets)
                /\ c.hit => /\ c.key \in DOMAIN cache
                            /\ c.table = cache[c.key].table
                            /\ cache'[c.key] = cache[c.key]
                /\ ~c.hit => /\ c.key \in DOMAIN cache'
                             /\ cache'[c.key] = [table |-> c.table, at |-> c.at]
                /\ ~c.prevKnown => ~c.hit /\ c.wcalls = 1
                /\ run'.kind = "top_n" =>
                      /\ c.wcalls > 0 => c.f = "get_top_products_categories"
                      /\ c.f # "get_top_products_categories" => c.hit
          /\ \A k \in DOMAIN cache :
                (\A i \in DOMAIN last' : last'[i].key # k) =>
                   k \in DOMAIN cache' /\ cache'[k] = cache[k]
          /\ \A k \in DOMAIN cache' :
                k \in DOMAIN cache \/ \E i \in DOMAIN last' : last'[i].key = k
          /\ run'.kind = "top_n" => run'.calls <= 1
      ]_vars

C22_Witness ==
    /\ run.kind = "top_n"
    /\ run.footer
    /\ run.invocations = NumCallSites
    /\ run.calls = 1
    /\ Cardinality(DOMAIN cache) = NumCallSites + 1

(***************************************************************************)
(* Part 5.  The review, installment and frequency statements evaluated on  *)
(* small warehouse tables.                                                 *)
(***************************************************************************)

\* The dashboard's variables in the specifications that do not run it.
DashboardOff ==
    /\ now = 0
    /\ secretsOk = TRUE
    /\ conn = FALSE
    /\ cache = << >>
    /\ widgets = InitWidgets
    /\ pc = Phase("idle")
    /\ run = NewRun("none")
    /\ last = << >>
    /\ hist = << >>
    /\ runs = 0
    /\ faults = 0
    /\ sq = NoStatementYet

\* A nullable SQL value is the empty set (NULL) or the singleton of its value.
NULL == {}

Val(x) == CHOOSE v \in x : TRUE

MaxFactRows == 2

MaxGroupRows == 4

\* p.total_installments of the payments in dim_payments.
Installments == <<1, 3, 10>>

\* The review keys of the tables built from group sizes, one per group.
GroupReviewKeys == <<NULL, {1}, {3}>>

NumGroups == Len(GroupReviewKeys)

\* dim_reviews: review_key -> row.  Review 4 carries no score.
dim_reviews ==
    [k \in 1..4 |-> [review_key |-> {k}, review_score |-> <<{5}, {3}, {1}, NULL>>[k]]]

\* dim_date: date_key -> row.
dim_date == [k \in 1..2 |-> [date_key |-> {k}, year |-> {<<"2017", "2018">>[k]}]]

\* dim_customers: customer_key -> row.
dim_customers ==
    [k \in 1..(NumGroups * (MaxGroupRows + 1)) |->
        [customer_key |-> {k},
         customer_region |-> {IF k % 2 = 1 THEN "South" ELSE "North"}]]

\* dim_payments: payment_key -> row.
dim_payments ==
    [k \in 1..Len(Installments) |->
        [payment_key |-> {k}, total_installments |-> {Installments[k]}]]

Warehouse ==
    [dim_reviews |-> dim_reviews, dim_date |-> dim_date,
     dim_customers |-> dim_customers, dim_payments |-> dim_payments]

\* The fact_sales column each dimension is joined on (`ON f.x = a.x`).
JoinKey(table) ==
    CASE table = "dim_reviews" -> "review_key"
      [] table = "dim_date" -> "date_key"
      [] table = "dim_customers" -> "customer_key"
      [] table = "dim_payments" -> "payment_key"

FactRow(sk, order, customer, date, review, payment) ==
    [order_item_sk |-> sk, order_key |-> order, customer_key |-> customer,
     date_key |-> date, review_key |-> review, payment_key |-> payment]

\* The join of stmt that introduces alias.
JoinOf(stmt, alias) ==
    stmt.joins[CHOOSE j \in 1..Len(stmt.joins) : stmt.joins[j].alias = alias]

\* `ON f.key = a.key`: a NULL or dangling key matches no row.
Matches(row, join) ==
    /\ row[JoinKey(join.table)] # NULL
    /\ Val(row[JoinKey(join.table)]) \in DOMAIN Warehouse[join.table]

\* alias.col for the fact row: NULL when the (left) join found no match.
Col(stmt, row, alias, col) ==
    LET join == JoinOf(stmt, alias) IN
    IF Matches(row, join)
    THEN Warehouse[join.table][Val(row[JoinKey(join.table)])][col]
    ELSE NULL

Holds(stmt, row, pred) ==
    CASE pred.alias = "" -> TRUE
      [] pred.op = "=" ->
           Col(stmt, row, pred.alias, pred.col) = {pred.val}
      [] pred.op = "IS NOT NULL" -> Col(stmt, row, pred.alias, pred.col) # NULL

\* FROM fact_sales f <joins> WHERE <conditions>: the indices of the fact rows
\* that survive every inner join and every condition.  Dimension keys are
\* unique, so no join multiplies a fact row.
FromWhere(stmt, facts) ==
    {i \in DOMAIN facts :
        /\ \A j \in 1..Len(stmt.joins) :
             stmt.joins[j].kind = "JOIN" => Matches(facts[i], stmt.joins[j])
        /\ \A w \in 1..Len(stmt.where) : Holds(stmt, facts[i], stmt.where[w])}

ReviewCategory_nonull(review_key, review_score) ==
    IF review_score # NULL /\ Val(review_score) >= 4 THEN "Positive (4-5)"
    ELSE IF review_score = {3} THEN "Neutral (3)"
    ELSE "Negative (1-2)"

\* CASE WHEN r.review_key IS NULL THEN 'No Review' WHEN r.review_score >= 4
\* ... END: a comparison with a NULL score is not true.
ReviewCategory(review_key, review_score) ==
    IF review_key = NULL THEN "No Review"
    ELSE IF review_score # NULL /\ Val(review_score) >= 4 THEN "Positive (4-5)"
    ELSE IF review_score = {3} THEN "Neutral (3)"
    ELSE "Negative (1-2)"

\* COALESCE(r.review_score, 0)
Coalesce(v, d) == IF v = NULL THEN d ELSE Val(v)

\* COUNT(col): the rows of the group whose col is not NULL.
CountCol(facts, G, col) == Cardinality({i \in G : facts[i][col] # NULL})

Round1_truncating(num, den) == (1000 * num) \div den

\* ROUND(num * 100.0 / den, 1), in tenths of a percent; ROUND rounds halves
\* away from zero.
Round1(num, den) == (2000 * num + den) \div (2 * den)

\* The SELECT ... GROUP BY of get_reviews_sales_correlation over the rows of
\* its FROM/WHERE; the sums of item values are left out.
ReviewsSalesCorrelationRows(year_filter, region_filter, facts) ==
    LET stmt == get_reviews_sales_correlation(year_filter, region_filter)
        I == FromWhere(stmt, facts)
        rkey(i) == Col(stmt, facts[i], "r", "review_key")
        cat(i) == ReviewCategory(rkey(i), Col(stmt, facts[i], "r", "review_score"))
        Group(c) == {i \in I : cat(i) = c}
        Reviews(c) == Cardinality({i \in Group(c) : rkey(i) # NULL})
    IN  {[review_category |-> c,
          total_items |-> CountCol(facts, Group(c), "order_item_sk"),
          reviews_count |-> Reviews(c),
          no_review_count |-> Cardinality(Group(c)) - Reviews(c),
          total_orders |-> Cardinality({facts[i].order_key : i \in Group(c)} \ {NULL})] :
            c \in {cat(i) : i \in I}}

\* The SELECT ... GROUP BY COALESCE(r.review_score, 0) of
\* get_review_score_distribution.
ReviewScoreDistributionRows(year_filter, region_filter, facts) ==
    LET stmt == get_review_score_distribution(year_filter, region_filter)
        I == FromWhere(stmt, facts)
        rkey(i) == Col(stmt, facts[i], "r", "review_key")
        score(i) == Coalesce(Col(stmt, facts[i], "r", "review_score"), 0)
        Group(c) == {i \in I : score(i) = c}
    IN  {[review_score |-> c,
          total_items |-> CountCol(facts, Group(c), "order_item_sk"),
          total_orders |-> Cardinality({facts[i].order_key : i \in Group(c)} \ {NULL}),
          actual_reviews |-> Cardinality({i \in Group(c) : rkey(i) # NULL}),
          percentage_of_items |->
              Round1(CountCol(facts, Group(c), "order_item_sk"),
                     CountCol(facts, I, "order_item_sk"))] :
            c \in {score(i) : i \in I}}

\* The SELECT ... GROUP BY p.total_installments of get_installment_analysis.
InstallmentRows(year_filter, region_filter, facts) ==
    LET stmt == get_installment_analysis(year_filter, region_filter)
        I == FromWhere(stmt, facts)
        inst(i) == Col(stmt, facts[i], "p", "total_installments")
        Group(c) == {i \in I : inst(i) = c}
    IN  {[total_installments |-> c,
          order_count |-> Cardinality({facts[i].order_key : i \in Group(c)} \ {NULL}),
          percentage_of_orders |-> Round1(Cardinality(Group(c)), Cardinality(I))] :
            c \in {inst(i) : i \in I}}

\* get_customer_frequency_analysis: customer_order_counts groups the joined
\* rows by c.customer_key and counts the distinct orders; the outer SELECT
\* groups the customers by order_count.
CustomerFrequencyRows(year_filter, region_filter, facts) ==
    LET stmt == get_customer_frequency_analysis(year_filter, region_filter)
        I == FromWhere(stmt, facts)
        Customers == {Col(stmt, facts[i], "c", "customer_key") : i \in I}
        order_count(k) ==
            Cardinality({facts[i].order_key :
                           i \in {x \in I : Col(stmt, facts[x], "c", "customer_key") = k}}
                         \ {NULL})
        Group(n) == {k \in Customers : order_count(k) = n}
    IN  {[order_count |-> n,
          customer_count |-> Cardinality(Group(n)),
          percentage_of_customers |->
              Round1(Cardinality(Group(n)), Cardinality(Customers))] :
            n \in {order_count(k) : k \in Customers}}

\* Fact tables of up to MaxFactRows rows, every row with its own order, any
\* review key (NULL, matched, matched without score, dangling), date and
\* customer.
FactReviewKeys == {NULL, {1}, {2}, {4}, {9}}

RowTables ==
    UNION {{[i \in 1..n |-> FactRow({i}, {i}, {c[i][1]}, {c[i][2]}, c[i][3], {1})] :
              c \in [1..n -> {1, 2} \X {1, 2} \X FactReviewKeys]} :
           n \in 1..MaxFactRows}

\* Fact tables built from group sizes: group g has size[g] customers with g
\* orders of one item each, all of review key GroupReviewKeys[g] and
\* payment g.
GroupTable(size) ==
    LET T == {t \in (1..NumGroups) \X (1..MaxGroupRows) \X (1..NumGroups) :
                t[2] <= size[t[1]] /\ t[3] <= t[1]}
        Before(u, t) ==
            \/ u[1] < t[1]
            \/ u[1] = t[1] /\ u[2] < t[2]
            \/ u[1] = t[1] /\ u[2] = t[2] /\ u[3] <= t[3]
        At_(i) == CHOOSE t \in T : Cardinality({u \in T : Before(u, t)}) = i
        Row(i, t) ==
            FactRow({i}, {i}, {(t[1] - 1) * (MaxGroupRows + 1) + t[2]},
                    {1}, GroupReviewKeys[t[1]], {t[1]})
    IN  [i \in 1..Cardinality(T) |-> Row(i, At_(i))]

GroupTables ==
    {GroupTable(size) :
       size \in {z \in [1..NumGroups -> 0..MaxGroupRows] : \E g \in 1..NumGroups : z[g] > 0}}

AggYears == {None, YearOptions[3]}

AggRegions == {None, RegionOptions[5]}

AggInit ==
    /\ DashboardOff
    /\ cl = Unused /\ ld = Unused /\ kg = Unused
    /\ \E facts \in RowTables \cup GroupTables, y \in AggYears, r \in AggRegions :
         ev = [facts |-> facts, year |-> y, region |-> r, query |-> "none", rows |-> {}]

Evaluated(query, rows) ==
    /\ ev.query = "none"
    /\ ev' = [ev EXCEPT !.query = query, !.rows = rows]
    /\ UNCHANGED <<dashVars, sq, cl, ld, kg>>

EvalReviewsSalesCorrelation ==
    Evaluated("get_reviews_sales_correlation",
              ReviewsSalesCorrelationRows(ev.year, ev.region, ev.facts))

EvalReviewScoreDistribution ==
    Evaluated("get_review_score_distribution",
              ReviewScoreDistributionRows(ev.year, ev.region, ev.facts))

EvalInstallment ==
    Evaluated("get_installment_analysis", InstallmentRows(ev.year, ev.region, ev.facts))

EvalCustomerFrequency ==
    Evaluated("get_customer_frequency_analysis",
              CustomerFrequencyRows(ev.year, ev.region, ev.facts))

AggNext ==
    \/ EvalReviewsSalesCorrelation
    \/ EvalReviewScoreDistribution
    \/ EvalInstallment
    \/ EvalCustomerFrequency

AggSpec == AggInit /\ [][AggNext]_vars

RECURSIVE SumOf(_, _)
\* The sum of column col over a set of result rows.
SumOf(rows, col) ==
    IF rows = {} THEN 0
    ELSE LET r == CHOOSE x \in rows : TRUE IN r[col] + SumOf(rows \ {r}, col)

\* The fact row belongs to the year and the region asked for.
PassesFilters(row, year_filter, region_filter) ==
    /\ YearSelected(year_filter) =>
         /\ row.date_key # NULL /\ Val(row.date_key) \in DOMAIN dim_date
         /\ dim_date[Val(row.date_key)].year = {year_filter}
    /\ RegionSelected(region_filter) =>
         /\ row.customer_key # NULL /\ Val(row.customer_key) \in DOMAIN dim_customers
         /\ dim_customers[Val(row.customer_key)].customer_region = {region_filter}

Passing == {i \in DOMAIN ev.facts : PassesFilters(ev.facts[i], ev.year, ev.region)}

\* The review key of the fact row is NULL or the key of no review.
Unmatched(row) ==
    row.review_key = NULL \/ Val(row.review_key) \notin DOMAIN dim_reviews

\* C11: get_reviews_sales_correlation over a non-empty fact table whose rows
\* all have a NULL review key, none excluded by the filters, returns exactly
\* one row: review_category 'No Review', reviews_count 0 and no_review_count
\* the number of fact rows.
C11_AllNoReview ==
    ( /\ ev.query = "get_reviews_sales_correlation"
      /\ \A i \in DOMAIN ev.facts : ev.facts[i].review_key = NULL
      /\ Passing = DOMAIN ev.facts )
    => /\ Cardinality(ev.rows) = 1
       /\ \A r \in ev.rows :
            /\ r.review_category = "No Review"
            /\ r.reviews_count = 0
            /\ r.no_review_count = Len(ev.facts)

C11_Witness ==
    /\ ev.query = "get_reviews_sales_correlation"
    /\ Len(ev.facts) >= 2
    /\ \A i \in DOMAIN ev.facts : ev.facts[i].review_key = NULL
    /\ Passing = DOMAIN ev.facts
    /\ \E r \in ev.rows : r.no_review_count = Len(ev.facts)

\* The bucket column of the two review queries and its no-review value.
BucketCol == IF ev.query = "get_reviews_sales_correlation" THEN "review_category"
             ELSE "review_score"

\* The reviews counted in a result row.
ReviewsIn(r) == IF ev.query = "get_reviews_sales_correlation" THEN r.reviews_count
                ELSE r.actual_reviews

IsNoReviewBucket(r) ==
    IF ev.query = "get_reviews_sales_correlation" THEN r.review_category = "No Review"
    ELSE r.review_score = 0

\* C12: in both review queries no fact row that passes the filters is
\* dropped for want of a review: the rows without a matching review are
\* exactly the items of the no-review bucket ('No Review', score 0) that are
\* not reviews, each bucket occurs once, and total_items summed over the
\* result is the number of fact rows that pass the year/region filters.
C12_NoReviewBucket ==
    ev.query \in {"get_reviews_sales_correlation", "get_review_score_distribution"} =>
      LET U == {i \in Passing : Unmatched(ev.facts[i])} IN
      /\ SumOf(ev.rows, "total_items") = Cardinality(Passing)
      /\ \A r1, r2 \in ev.rows : r1[BucketCol] = r2[BucketCol] => r1 = r2
      /\ U # {} => \E r \in ev.rows :
                      IsNoReviewBucket(r) /\ r.total_items - ReviewsIn(r) = Cardinality(U)
      /\ \A r \in ev.rows : ~IsNoReviewBucket(r) => r.total_items = ReviewsIn(r)

C12_Witness ==
    /\ ev.query = "get_review_score_distribution"
    /\ \E i, j \in DOMAIN ev.facts :
         /\ ev.facts[i].review_key = {9}
         /\ ev.facts[j].review_key = {1}
    /\ Passing = DOMAIN ev.facts
    /\ \E r \in ev.rows : r.review_score = 0 /\ r.total_items = 1 /\ r.actual_reviews = 0
    /\ Cardinality(ev.rows) = 2

PercentQueries ==
    {"get_review_score_distribution", "get_installment_analysis",
     "get_customer_frequency_analysis"}

PercentCol ==
    CASE ev.query = "get_review_score_distribution" -> "percentage_of_items"
      [] ev.query = "get_installment_analysis" -> "percentage_of_orders"
      [] ev.query = "get_customer_frequency_analysis" -> "percentage_of_customers"

\* |sum of the percentage column - 100.0|, in tenths of a percent.
PercentDeviation ==
    LET d == SumOf(ev.rows, PercentCol) - 1000 IN IF d < 0 THEN 0 - d ELSE d

\* C13: in the three distribution queries with a percentage-of-total column,
\* a non-empty result has percentages that sum to 100.0 within 0.05 per
\* returned row.
C13_PercentagesSum ==
    (ev.query \in PercentQueries /\ ev.rows # {}) =>
      2 * PercentDeviation <= Cardinality(ev.rows)

C13_Witness ==
    /\ ev.query = "get_customer_frequency_analysis"
    /\ Cardinality(ev.rows) = 3
    /\ PercentDeviation = 1

(***************************************************************************)
(* Part 6.  The summary metrics of the Monthly Sales Trends tab.           *)
(***************************************************************************)

MaxMonths == 3

MaxOrders == 2

\* total_sales values of a month, in cents.
SalesChoices == {0, 10000, 25000}

\* a / b as an exact fraction (Python's float division, without rounding).
Frac(a, b) == [num |-> a, den |-> b]

FracEq(x, y) == x.num * y.den = y.num * x.den

\* ROUND(SUM(f.total_item_value) / COUNT(DISTINCT f.order_key), 2), in cents.
RowAverage(sales, orders) == IF orders = 0 THEN 0 ELSE (2 * sales + orders) \div (2 * orders)

MonthRow(sales, orders) ==
    [total_sales |-> sales, total_orders |-> orders, total_items |-> orders,
     avg_order_value |-> RowAverage(sales, orders)]

RECURSIVE ColumnSum(_, _)
\* sales_data[col].sum()
ColumnSum(table, col) ==
    IF table = << >> THEN 0 ELSE Head(table)[col] + ColumnSum(Tail(table), col)

SummaryMetrics_meanofaverages(sales_data) ==
    [total_sales |-> ColumnSum(sales_data, "total_sales"),
     total_orders |-> ColumnSum(sales_data, "total_orders"),
     total_items |-> ColumnSum(sales_data, "total_items"),
     avg_order_value |-> Frac(ColumnSum(sales_data, "avg_order_value"), Len(sales_data))]

\* The summary metrics of tab 1.
SummaryMetrics(sales_data) ==
    LET total_sales == ColumnSum(sales_data, "total_sales")
        total_orders == ColumnSum(sales_data, "total_orders")
    IN  [total_sales |-> total_sales,
         total_orders |-> total_orders,
         total_items |-> ColumnSum(sales_data, "total_items"),
         avg_order_value |-> IF total_orders > 0 THEN Frac(total_sales, total_orders)
                             ELSE Frac(0, 1)]

MonthlyTables ==
    UNION {[1..n -> {MonthRow(sl, o) : sl \in SalesChoices, o \in 0..MaxOrders}] :
             n \in 0..MaxMonths}

MetricsInit ==
    /\ DashboardOff
    /\ cl = Unused /\ ld = Unused /\ kg = Unused
    /\ \E t \in MonthlyTables :
         ev = [sales_data |-> t, shown |-> "nothing", metrics |-> SummaryMetrics(<< >>)]

\* `if not sales_data.empty:` the KPI metrics.
ShowMetrics ==
    /\ ev.shown = "nothing"
    /\ ev.sales_data # << >>
    /\ ev' = [ev EXCEPT !.shown = "metrics", !.metrics = SummaryMetrics(ev.sales_data)]
    /\ UNCHANGED <<dashVars, sq, cl, ld, kg>>

\* `else: st.warning(...)`
ShowNoData ==
    /\ ev.shown = "nothing"
    /\ ev.sales_data = << >>
    /\ ev' = [ev EXCEPT !.shown = "warning"]
    /\ UNCHANGED <<dashVars, sq, cl, ld, kg>>

MetricsNext == ShowMetrics \/ ShowNoData

MetricsSpec == MetricsInit /\ [][MetricsNext]_vars

\* The sum of column col over the rows at the given indices.
RECURSIVE Total(_, _, _)
Total(table, col, idx) ==
    IF idx = {} THEN 0
    ELSE LET i == CHOOSE x \in idx : TRUE IN table[i][col] + Total(table, col, idx \ {i})

\* C14: for a non-empty monthly table the metrics shown are total sales =
\* sum of total_sales, total orders = sum of total_orders and average order
\* value = sum of total_sales / sum of total_orders, which is 0 when no
\* order was counted; it is the mean of the rows' avg_order_value only where
\* the two coincide.
C14_SummaryMetrics ==
    ev.shown = "metrics" =>
      LET t == ev.sales_data
          sales == Total(t, "total_sales", DOMAIN t)
          orders == Total(t, "total_orders", DOMAIN t)
          mean == Frac(Total(t, "avg_order_value", DOMAIN t), Len(t))
      IN  /\ ev.metrics.total_sales = sales
          /\ ev.metrics.total_orders = orders
          /\ ev.metrics.avg_order_value.den # 0
          /\ orders > 0 => FracEq(ev.metrics.avg_order_value, Frac(sales, orders))
          /\ orders = 0 => ev.metrics.avg_order_value.num = 0
          /\ (orders > 0 /\ ~FracEq(mean, Frac(sales, orders)))
                => ~FracEq(ev.metrics.avg_order_value, mean)

C14_Witness ==
    /\ ev.shown = "metrics"
    /\ Len(ev.sales_data) = 3
    /\ ev.metrics.total_sales = 45000
    /\ ev.metrics.total_orders = 4
    /\ ~FracEq(ev.metrics.avg_order_value,
               Frac(Total(ev.sales_data, "avg_order_value", DOMAIN ev.sales_data), 3))

(***************************************************************************)
(* Part 7.  Credential errors in the dashboard run.                        *)
(***************************************************************************)

\* C15 (as claimed): when the gcp_service_account secret is missing, the
\* dashboard run that meets the error makes no further warehouse attempt:
\* at most one query function has reached the client in that run.
C15_CredentialErrorFatal ==
    ~secretsOk => run.calls <= 1

(***************************************************************************)
(* Part 8.  A process calling the warehouse client module.                 *)
(***************************************************************************)

MaxClientCalls == 3

\* COUNT(*) as table_count of the __TABLES__ lookup.
TableCounts == {0, 1}

\* What a client function hands back: `kind` is "raise", "table" or "bool".
Raise(r) == [kind |-> "raise", value |-> None, logged |-> TRUE, conn |-> r.conn, built |-> r.built]

validate_table_exists_noexcept(connCached, secrets, outcome, table_count) ==
    LET ic == init_connection(connCached, secrets, outcome)
        ex == execute_query(NoStatementYet.stmt, TRUE, secrets, outcome)
    IN  IF ~ic.ok THEN Raise(ic)
        ELSE IF ex.raised \/ ex.table.rows = 0 THEN Raise(ic)
        ELSE [kind |-> "bool", value |-> table_count > 0, logged |-> FALSE,
              conn |-> ic.conn, built |-> ic.built]

\* validate_table_exists: client = init_connection(); result =
\* execute_query(query, client); result.iloc[0]['table_count'] > 0;
\* `except Exception`: logger.error, return False.
validate_table_exists(connCached, secrets, outcome, table_count) ==
    LET ic == init_connection(connCached, secrets, outcome)
        ex == execute_query(NoStatementYet.stmt, TRUE, secrets, outcome)
        failed == ~ic.ok \/ ex.raised \/ ex.table.rows = 0
    IN  [kind |-> "bool",
         value |-> IF failed THEN FALSE ELSE table_count > 0,
         logged |-> failed, conn |-> ic.conn, built |-> ic.built]

\* get_table_info: client = init_connection(); return execute_query(query,
\* client); `except Exception`: logger.error, return pd.DataFrame().
get_table_info(connCached, secrets, outcome) ==
    LET ic == init_connection(connCached, secrets, outcome)
        ex == execute_query(NoStatementYet.stmt, TRUE, secrets, outcome)
        failed == ~ic.ok \/ ex.raised
    IN  [kind |-> "table",
         value |-> IF failed THEN EmptyTable ELSE ex.table,
         logged |-> failed, conn |-> ic.conn, built |-> ic.built]

\* execute_query(query) as its caller sees it.
ExecuteQueryCall(connCached, secrets, outcome) ==
    LET ex == execute_query(NoStatementYet.stmt, connCached, secrets, outcome) IN
    IF ex.raised THEN Raise(ex)
    ELSE [kind |-> "table", value |-> ex.table, logged |-> FALSE,
          conn |-> ex.conn, built |-> ex.built]

\* init_connection() as its caller sees it.
InitConnectionCall(connCached, secrets, outcome) ==
    LET ic == init_connection(connCached, secrets, outcome) IN
    IF ~ic.ok THEN Raise(ic)
    ELSE [kind |-> "client", value |-> None, logged |-> FALSE,
          conn |-> ic.conn, built |-> ic.built]

NoCall == [fn |-> "none", outcome |-> "rows", table_count |-> 0, cachedBefore |-> FALSE,
           result |-> [kind |-> "none", value |-> None, logged |-> FALSE,
                       conn |-> FALSE, built |-> FALSE]]

ClientInit ==
    /\ DashboardOff
    /\ ev = Unused /\ ld = Unused /\ kg = Unused
    /\ \E secrets \in BOOLEAN :
         cl = [secrets |-> secrets, cached |-> FALSE, builds |-> 0, calls |-> 0,
               last |-> NoCall]

\* One call of a client function by a page of the process.
Called(fn, outcome, table_count, result) ==
    /\ cl.calls < MaxClientCalls
    /\ cl' = [cl EXCEPT !.calls = @ + 1,
                        !.cached = result.conn,
                        !.builds = @ + (IF result.built THEN 1 ELSE 0),
                        !.last = [fn |-> fn, outcome |-> outcome, table_count |-> table_count,
                                  cachedBefore |-> cl.cached, result |-> result]]
    /\ UNCHANGED <<dashVars, sq, ev, ld, kg>>

CallInitConnection ==
    \E o \in {"rows", "init_fail"} :
       Called("init_connection", o, 0, InitConnectionCall(cl.cached, cl.secrets, o))

CallExecuteQuery ==
    \E o \in Outcomes :
       Called("execute_query", o, 0, ExecuteQueryCall(cl.cached, cl.secrets, o))

CallValidateTableExists ==
    \E o \in Outcomes, n \in TableCounts :
       Called("validate_table_exists", o, n,
              validate_table_exists(cl.cached, cl.secrets, o, n))

CallGetTableInfo ==
    \E o \in Outcomes :
       Called("get_table_info", o, 0, get_table_info(cl.cached, cl.secrets, o))

ClientNext ==
    \/ CallInitConnection
    \/ CallExecuteQuery
    \/ CallValidateTableExists
    \/ CallGetTableInfo

ClientSpec == ClientInit /\ [][ClientNext]_vars

\* The call had no cached client and could not build one.
InitFails(c) == ~c.cachedBefore /\ (~cl.secrets \/ c.outcome = "init_fail")

\* client.query, result() or to_dataframe() raised.
QueryFails(c) == c.outcome \in {"query_fail", "result_fail", "df_fail"}

\* The table of the query's result.
ResultOf(c) == to_dataframe(IF c.outcome = "zero" THEN 0 ELSE ResultRows)

\* C16: execute_query returns the table of a successfully completed query or
\* raises, and raises exactly when the client or the query failed;
\* validate_table_exists always returns a boolean, False on any failure;
\* get_table_info always returns a table, the empty one on any failure.
C16_ClientOutcomes ==
    LET c == cl.last
        r == c.result
        fails == InitFails(c) \/ QueryFails(c)
    IN  /\ c.fn = "execute_query" =>
             /\ r.kind \in {"table", "raise"}
             /\ r.kind = "raise" <=> fails
             /\ r.kind = "table" => r.value = ResultOf(c) /\ r.value # EmptyTable
        /\ c.fn = "validate_table_exists" =>
             /\ r.kind = "bool"
             /\ r.value \in BOOLEAN
             /\ fails => r.value = FALSE /\ r.logged
             /\ (~fails /\ c.outcome # "zero") => r.value = (c.table_count > 0)
        /\ c.fn = "get_table_info" =>
             /\ r.kind = "table"
             /\ fails => r.value = EmptyTable /\ r.logged
             /\ ~fails => r.value = ResultOf(c)

C16_Witness ==
    /\ cl.last.fn = "validate_table_exists"
    /\ cl.last.cachedBefore
    /\ cl.last.outcome = "query_fail"
    /\ cl.last.table_count = 1
    /\ cl.last.result.kind = "bool"
    /\ cl.last.result.value = FALSE

\* C17: the client is built at most once in the process: once a call has
\* built it, every later call of any client function finds it cached and
\* builds nothing; a call that fails to build it stores nothing, and the
\* next call builds again.
C17_AuthenticateOnce ==
    [][ LET c == cl'.last
            succeeds == cl.secrets /\ c.outcome # "init_fail"
        IN  /\ cl'.builds <= 1
            /\ cl.cached => /\ cl'.cached
                            /\ cl'.builds = cl.builds
                            /\ ~c.result.built
                            /\ c.fn = "init_connection" => c.result.kind = "client"
            /\ ~cl.cached => /\ cl'.cached <=> succeeds
                             /\ c.result.built <=> succeeds
                             /\ cl'.builds = cl.builds + (IF succeeds THEN 1 ELSE 0)
      ]_vars

C17_Witness ==
    /\ cl.calls = 3
    /\ cl.builds = 1
    /\ cl.cached
    /\ cl.last.cachedBefore
    /\ cl.last.fn = "init_connection"
    /\ cl.last.outcome = "init_fail"
    /\ cl.last.result.kind = "client"

(***************************************************************************)
(* Part 9.  The CSV loader (load_csv_to_duckdb.py).                        *)
(***************************************************************************)

\* (csv_filename, table_name) of CSV_TABLES.
CSV_TABLES ==
    << <<"olist_customers_dataset.csv", "raw_customers">>,
       <<"olist_orders_dataset.csv", "raw_orders">>,
       <<"olist_order_items_dataset.csv", "raw_order_items">>,
       <<"olist_order_payments_dataset.csv", "raw_order_payments">>,
       <<"olist_order_reviews_dataset.csv", "raw_order_reviews">>,
       <<"olist_products_dataset.csv", "raw_products">>,
       <<"olist_sellers_dataset.csv", "raw_sellers">>,
       <<"olist_geolocation_dataset.csv", "raw_geolocation">>,
       <<"product_category_name_translation.csv", "raw_category_translation">> >>

CsvFiles == {CSV_TABLES[i][1] : i \in 1..Len(CSV_TABLES)}

RawTables == {CSV_TABLES[i][2] : i \in 1..Len(CSV_TABLES)}

MaxLoadFaults == 1

\* Data records of a CSV file that has any.
CsvRecords == 2

\* What a CSV file on disk can look like: one line per record under the
\* header; a quoted field that spans two lines; the header alone; no bytes
\* at all; bytes that do not decode as UTF-8.
FileShapes == {"exact", "multiline", "header_only", "empty", "undecodable"}

\* The number of lines of the file.
Lines(shape) ==
    CASE shape = "exact" -> 1 + CsvRecords
      [] shape = "multiline" -> 2 + CsvRecords
      [] shape = "header_only" -> 1
      [] shape = "empty" -> 0
      [] shape = "undecodable" -> 1 + CsvRecords

\* The rows read_csv_auto(..., header=true) yields when it reads the file.
Records(shape) == IF shape \in {"header_only", "empty"} THEN 0 ELSE CsvRecords

\* get_csv_row_count: lines - 1; `except Exception`: logger.warning, -1.
get_csv_row_count(shape) ==
    IF shape = "undecodable" THEN [rows |-> 0 - 1, warned |-> TRUE]
    ELSE [rows |-> Lines(shape) - 1, warned |-> FALSE]

create_duckdb_database_keep(db) == [exists |-> TRUE, tables |-> db.tables]

\* create_duckdb_database: unlink the file if it exists, then connect, which
\* creates an empty database.
create_duckdb_database(db) == [exists |-> TRUE, tables |-> {}]

\* load_csv_to_table: count the lines, CREATE TABLE ... AS SELECT * FROM
\* read_csv_auto, read the row count back, warn on a mismatch, return
\* (True, loaded_rows); `except Exception`: logger.error, return (False, 0).
\* `duck` is "ok" or "raise": whether DuckDB executes the statements.
load_csv_to_table(tables, table_name, shape, duck) ==
    LET original == get_csv_row_count(shape)
        loaded_rows == Records(shape)
        mismatch == original.rows > 0 /\ loaded_rows # original.rows
    IN  IF duck = "raise" \/ table_name \in tables
        THEN [success |-> FALSE, rows |-> 0, raised |-> FALSE, tables |-> tables,
              created |-> FALSE, error |-> TRUE,
              warnings |-> IF original.warned THEN {"count"} ELSE {}]
        ELSE [success |-> TRUE, rows |-> loaded_rows, raised |-> FALSE,
              tables |-> tables \cup {table_name}, created |-> TRUE, error |-> FALSE,
              warnings |-> (IF original.warned THEN {"count"} ELSE {})
                             \cup (IF mismatch THEN {"mismatch"} ELSE {})]

\* validate_database: SHOW TABLES, the row count of each, a sample query on
\* raw_customers; `except Exception`: logger.error, return {}.
validate_database(tables, duck) ==
    IF duck = "raise" \/ "raw_customers" \notin tables THEN {}
    ELSE tables

NoDatabase == [exists |-> FALSE, tables |-> {}]

\* The database file a previous run may have left.
OldDatabases ==
    {NoDatabase,
     [exists |-> TRUE, tables |-> {"stale_table"}],
     [exists |-> TRUE, tables |-> RawTables \cup {"stale_table"}]}

\* The CSV files that may be missing from the data directory.
MissingChoices == {{}, {CSV_TABLES[1][1]}, {CSV_TABLES[5][1], CSV_TABLES[9][1]}}

NoLoad == [csv |-> "", table |-> "", shape |-> "exact", duck |-> "ok",
           before |-> {},
           result |-> [success |-> FALSE, rows |-> 0, raised |-> FALSE, tables |-> {},
                       created |-> FALSE, error |-> FALSE, warnings |-> {}]]

check_csv_files_any(present) == present # {}

\* check_csv_files: False when some file of CSV_TABLES is not in the data
\* directory.
check_csv_files(present) ==
    LET missing_files == {f \in CsvFiles : f \notin present}
    IN  missing_files = {}

LoaderInit ==
    /\ DashboardOff
    /\ ev = Unused /\ cl = Unused /\ kg = Unused
    /\ \E old \in OldDatabases, missing \in MissingChoices :
         ld = [pc |-> "check", missing |-> missing, old |-> old, db |-> old,
               connOpen |-> FALSE, opened |-> 0, closed |-> 0,
               i |-> 1, successful_loads |-> 0, total_rows |-> 0,
               created |-> [t \in RawTables |-> 0], attempted |-> {},
               last |-> NoLoad, table_stats |-> {}, faults |-> 0,
               exited |-> FALSE, status |-> 0]

LoaderStep(new) ==
    /\ ld' = new
    /\ UNCHANGED <<dashVars, sq, ev, cl, kg>>

\* main: `if not check_csv_files(): sys.exit(1)`.
LdCheckFiles ==
    /\ ld.pc = "check"
    /\ LoaderStep(IF ~check_csv_files(CsvFiles \ ld.missing)
                  THEN [ld EXCEPT !.pc = "done", !.exited = TRUE, !.status = 1]
                  ELSE [ld EXCEPT !.pc = "create"])

\* main: `conn = create_duckdb_database()`.
LdCreateDatabase ==
    /\ ld.pc = "create"
    /\ LoaderStep([ld EXCEPT !.pc = "load", !.db = create_duckdb_database(ld.db),
                             !.connOpen = TRUE, !.opened = @ + 1])

\* main: one turn of `for csv_file, table_name, description in CSV_TABLES`.
LdLoadCsv ==
    /\ ld.pc = "load"
    /\ \E shape \in FileShapes, duck \in {"ok", "raise"} :
         /\ duck = "raise" => ld.faults < MaxLoadFaults
         /\ LET csv == CSV_TABLES[ld.i][1]
                table == CSV_TABLES[ld.i][2]
                res == load_csv_to_table(ld.db.tables, table, shape, duck)
            IN  LoaderStep(
                  [ld EXCEPT
                     !.i = @ + 1,
                     !.pc = IF ld.i = Len(CSV_TABLES) THEN "summary" ELSE "load",
                     !.db.tables = res.tables,
                     !.successful_loads = @ + (IF res.success THEN 1 ELSE 0),
                     !.total_rows = @ + (IF res.success THEN res.rows ELSE 0),
                     !.created[table] = @ + (IF res.created THEN 1 ELSE 0),
                     !.attempted = @ \cup {csv},
                     !.faults = @ + (IF duck = "raise" THEN 1 ELSE 0),
                     !.last = [csv |-> csv, table |-> table, shape |-> shape,
                               duck |-> duck, before |-> ld.db.tables, result |-> res]])

LdSummary_ignorefailed ==
    /\ ld.pc = "summary"
    /\ LET table_stats == validate_database(ld.db.tables, "ok")
       IN  LoaderStep([ld EXCEPT !.pc = "done", !.exited = TRUE,
                                 !.status = IF table_stats # {} THEN 0 ELSE 1,
                                 !.table_stats = table_stats,
                                 !.connOpen = FALSE, !.closed = @ + 1])

\* main: the summary, validate_database when every load succeeded,
\* sys.exit(1) otherwise, and `finally: conn.close()`.
LdSummary ==
    /\ ld.pc = "summary"
    /\ \E duck \in {"ok", "raise"} :
         /\ duck = "raise" => ld.faults < MaxLoadFaults /\ ld.successful_loads = Len(CSV_TABLES)
         /\ LET all_loaded == ld.successful_loads = Len(CSV_TABLES)
                table_stats == IF all_loaded THEN validate_database(ld.db.tables, duck)
                               ELSE {}
                ok == all_loaded /\ table_stats # {}
            IN  LoaderStep([ld EXCEPT !.pc = "done", !.exited = TRUE,
                                      !.status = IF ok THEN 0 ELSE 1,
                                      !.table_stats = table_stats,
                                      !.faults = @ + (IF duck = "raise" THEN 1 ELSE 0),
                                      !.connOpen = FALSE, !.closed = @ + 1])

LoaderNext == LdCheckFiles \/ LdCreateDatabase \/ LdLoadCsv \/ LdSummary

LoaderSpec == LoaderInit /\ [][LoaderNext]_vars

\* C18 (as claimed): whenever the table was created and the row count read
\* back differs from the file's line count - 1, a warning is logged and the
\* load returns (True, loaded_rows) without raising.
C18_MismatchWarned ==
    LET l == ld.last IN
    (l.result.created /\ Records(l.shape) # Lines(l.shape) - 1) =>
       /\ l.result.warnings # {}
       /\ l.result.success /\ ~l.result.raised
       /\ l.result.rows = Records(l.shape)

\* C19: a load run that ends with status 0 leaves a database file holding
\* exactly the tables of CSV_TABLES, each created once in this run, and
\* nothing of the file a previous run left.
C19_FreshDatabase ==
    (ld.exited /\ ld.status = 0) =>
       /\ ld.db.exists
       /\ ld.db.tables = RawTables
       /\ Cardinality(ld.db.tables) = 9
       /\ \A t \in RawTables : ld.created[t] = 1
       /\ ld.db.tables \cap (ld.old.tables \ RawTables) = {}

C19_Witness ==
    /\ ld.exited /\ ld.status = 0
    /\ ld.old.tables = RawTables \cup {"stale_table"}
    /\ ld.db.tables = RawTables
    /\ \A t \in RawTables : ld.created[t] = 1

\* C26: the loader ends with status 0 only if all 9 loads succeeded and the
\* validation returned statistics; a failed load does not stop the loads
\* that follow it but makes the run end with status 1; and once the
\* connection was opened it is closed, once, when the run ends.
C26_LoaderExit ==
    /\ (ld.exited /\ ld.status = 0) =>
          /\ ld.successful_loads = Len(CSV_TABLES)
          /\ ld.table_stats # {}
    /\ (ld.exited /\ ld.opened > 0) =>
          /\ ld.attempted = CsvFiles
          /\ ~ld.connOpen /\ ld.closed = ld.opened
          /\ ld.successful_loads < Len(CSV_TABLES) => ld.status = 1
    /\ ld.connOpen <=> (ld.opened = 1 /\ ld.closed = 0)

C26_Witness ==
    /\ ld.exited /\ ld.status = 1
    /\ ld.successful_loads = Len(CSV_TABLES) - 1
    /\ ld.created[CSV_TABLES[1][2]] = 0
    /\ ld.created[CSV_TABLES[Len(CSV_TABLES)][2]] = 1
    /\ ld.closed = 1

\* C27: when a file of CSV_TABLES is missing the loader exits with status 1
\* at the file check: the database file of a previous run is as it was, no
\* connection is opened and no table is created.
C27_MissingCsvLeavesDatabase ==
    ld.missing # {} =>
       /\ ld.db = ld.old
       /\ ld.opened = 0
       /\ \A t \in RawTables : ld.created[t] = 0
       /\ ld.pc # "check" => (ld.exited /\ ld.status = 1)

C27_Witness ==
    /\ ld.missing # {}
    /\ ld.exited /\ ld.status = 1
    /\ ld.old.exists /\ "stale_table" \in ld.db.tables

(***************************************************************************)
(* Part 10.  The Kaggle ingestion script (data_ingestion.py).              *)
(***************************************************************************)

\* The `datasets` dictionary of setup_kaggle_datasets, in iteration order.
datasets ==
    << [name |-> "brazilian-ecommerce", dataset |-> "olistbr/brazilian-ecommerce",
        expected_files |-> {"olist_customers_dataset.csv",
                            "olist_orders_dataset.csv",
                            "olist_order_items_dataset.csv",
                            "olist_order_payments_dataset.csv",
                            "olist_order_reviews_dataset.csv",
                            "olist_products_dataset.csv",
                            "olist_sellers_dataset.csv",
                            "olist_geolocation_dataset.csv",
                            "product_category_name_translation.csv"}],
       [name |-> "marketing-funnel", dataset |-> "olistbr/marketing-funnel-olist",
        expected_files |-> {"olist_marketing_qualified_leads_dataset.csv",
                            "olist_closed_deals_dataset.csv"}] >>

\* Permission bits of a file, as octal literals.
FileModes == {"0o600", "0o644"}

NoFile == [exists |-> FALSE, mode |-> "0o644"]

\* What ~/.kaggle may hold before the run.
HomeChoices ==
    {[dir |-> FALSE, file |-> NoFile], [dir |-> TRUE, file |-> NoFile]}
      \cup {[dir |-> TRUE, file |-> [exists |-> TRUE, mode |-> m]] : m \in FileModes}

\* ./kaggle.json before the run.
LocalChoices == {NoFile} \cup {[exists |-> TRUE, mode |-> m] : m \in FileModes}

\* The files a target directory may hold before the run: all the expected
\* files, none, or all but one.
PresentChoices(d) ==
    LET expected == datasets[d].expected_files
    IN  {expected, {}, expected \ {CHOOSE f \in expected : TRUE}}

\* shutil.copy2 copies the content and the permission bits of the source.
copy2(src) == [exists |-> TRUE, mode |-> src.mode]

\* os.chmod(path, 0o600).
chmod(file, mode) == [file EXCEPT !.mode = mode]

\* setup_kaggle_datasets, "Set up Kaggle authentication": mkdir ~/.kaggle,
\* then copy and chmod only `if not target_kaggle_json.exists()`.
configure_credentials(local, home) ==
    [dir |-> TRUE,
     file |-> IF ~home.file.exists THEN chmod(copy2(local), "0o600") ELSE home.file]

\* api.dataset_download_files(..., unzip=True) into a target directory that
\* holds `present`: every expected file arrives, or the archive lacks one.
DownloadOutcomes == {"complete", "partial", "raise"}

Downloaded(d, present, outcome) ==
    LET expected == datasets[d].expected_files
    IN  CASE outcome = "complete" -> present \cup expected
          [] outcome = "partial" -> present \cup (expected \ {CHOOSE f \in expected : f \notin present})
          [] outcome = "raise" -> present

all_files_exist_some(expected, present) == expected \cap present # {}

\* `len(existing_files) == len(config['expected_files'])`.
all_files_exist(expected, present) ==
    LET existing_files == {f \in expected : f \in present}
    IN  Cardinality(existing_files) = Cardinality(expected)

\* Runs of the script, one after the other on the same file system.
MaxKaggleRuns == 2

KaggleInit ==
    /\ DashboardOff
    /\ ev = Unused /\ cl = Unused /\ ld = Unused
    /\ \E local \in LocalChoices, home \in HomeChoices,
          e \in PresentChoices(1), m \in PresentChoices(2), zips \in BOOLEAN :
         kg = [pc |-> "credentials", local |-> local, home |-> home, home0 |-> home,
               dataDirs |-> FALSE, files |-> <<e, m>>, files0 |-> <<e, m>>,
               zips |-> zips, d |-> 1, downloads |-> <<>>, warned |-> {},
               authenticated |-> FALSE, returned |-> FALSE, setup_success |-> FALSE,
               loaded |-> 0, exited |-> FALSE, status |-> 0, run |-> 1,
               prev |-> [success |-> FALSE, complete |-> FALSE, downloads |-> 0]]

KaggleStep(new) ==
    /\ kg' = new
    /\ UNCHANGED <<dashVars, sq, ev, cl, ld>>

\* `return` of setup_kaggle_datasets.
Return(k, value) == [k EXCEPT !.pc = "main", !.returned = TRUE, !.setup_success = value]

\* setup_kaggle_datasets: the kaggle.json check and the credential step.
KgCredentials ==
    /\ kg.pc = "credentials"
    /\ KaggleStep(IF ~kg.local.exists THEN Return(kg, FALSE)
                  ELSE [kg EXCEPT !.pc = "directories",
                                  !.home = configure_credentials(kg.local, kg.home)])

\* setup_kaggle_datasets: "Create data directory structure".
KgDirectories ==
    /\ kg.pc = "directories"
    /\ KaggleStep([kg EXCEPT !.pc = "authenticate", !.dataDirs = TRUE])

\* setup_kaggle_datasets: import kaggle, KaggleApi().authenticate().
KgAuthenticate ==
    /\ kg.pc = "authenticate"
    /\ \E outcome \in {"ok", "ImportError", "Exception"} :
         KaggleStep(IF outcome = "ok"
                    THEN [kg EXCEPT !.pc = "dataset", !.authenticated = TRUE]
                    ELSE Return(kg, FALSE))

\* setup_kaggle_datasets: one turn of `for dataset_name, config in
\* datasets.items()`.
KgDataset ==
    /\ kg.pc = "dataset"
    /\ LET expected == datasets[kg.d].expected_files
           next == [kg EXCEPT !.d = @ + 1,
                              !.pc = IF kg.d = Len(datasets) THEN "cleanup" ELSE "dataset"]
       IN  IF all_files_exist(expected, kg.files[kg.d])
           THEN KaggleStep(next)
           ELSE \E outcome \in DownloadOutcomes :
                  LET after == Downloaded(kg.d, kg.files[kg.d], outcome)
                      called == [kg EXCEPT !.downloads = Append(@, datasets[kg.d].dataset)]
                  IN  IF outcome = "raise" THEN KaggleStep(Return(called, FALSE))
                      ELSE KaggleStep(
                             [next EXCEPT !.downloads = called.downloads,
                                          !.files[kg.d] = after,
                                          !.warned = IF expected \ after # {}
                                                     THEN @ \cup {datasets[kg.d].name}
                                                     ELSE @])

\* setup_kaggle_datasets: unlink leftover zip files, `return True`.
KgCleanup ==
    /\ kg.pc = "cleanup"
    /\ KaggleStep(Return([kg EXCEPT !.zips = FALSE], TRUE))

\* main: sys.exit(1) when setup failed; otherwise load_datasets reads every
\* file that exists and the script ends normally.
KgMain ==
    /\ kg.pc = "main"
    /\ KaggleStep(IF ~kg.setup_success
                  THEN [kg EXCEPT !.pc = "done", !.exited = TRUE, !.status = 1]
                  ELSE [kg EXCEPT !.pc = "done", !.exited = TRUE, !.status = 0,
                                  !.loaded = Cardinality(kg.files[1] \cap datasets[1].expected_files)
                                             + Cardinality(kg.files[2] \cap datasets[2].expected_files)])

\* Every expected file of every dataset is in its target directory.
AllExpectedPresent(files) ==
    \A d \in 1..Len(datasets) : datasets[d].expected_files \subseteq files[d]

\* The script is started again on the file system the last run left.
KgRunAgain ==
    /\ kg.pc = "done"
    /\ kg.run < MaxKaggleRuns
    /\ KaggleStep([kg EXCEPT !.pc = "credentials", !.run = @ + 1,
                             !.home0 = kg.home, !.files0 = kg.files,
                             !.dataDirs = kg.dataDirs,
                             !.d = 1, !.downloads = <<>>, !.warned = {},
                             !.authenticated = FALSE, !.returned = FALSE,
                             !.setup_success = FALSE, !.loaded = 0,
                             !.exited = FALSE, !.status = 0,
                             !.prev = [success |-> kg.setup_success /\ kg.status = 0,
                                       complete |-> AllExpectedPresent(kg.files),
                                       downloads |-> Len(kg.downloads)]])

KaggleNext ==
    \/ KgCredentials \/ KgDirectories \/ KgAuthenticate
    \/ KgDataset \/ KgCleanup \/ KgMain \/ KgRunAgain

KaggleSpec == KaggleInit /\ [][KaggleNext]_vars

\* C20 (as claimed): once setup_kaggle_datasets is past its credential step
\* (./kaggle.json exists), ~/.kaggle/kaggle.json exists with mode 0600,
\* whether it was copied in this run or was there before.
C20_CredentialFileRestricted ==
    (kg.pc # "credentials" /\ kg.local.exists) =>
       /\ kg.home.file.exists
       /\ kg.home.file.mode = "0o600"

\* C28 (as claimed): when setup_kaggle_datasets returns True every expected
\* file of both datasets is in its target directory.
C28_SuccessMeansAllFiles ==
    (kg.returned /\ kg.setup_success) => AllExpectedPresent(kg.files)

\* The download API was called for dataset d in this run.
DownloadCalled(d) ==
    \E i \in 1..Len(kg.downloads) : kg.downloads[i] = datasets[d].dataset

MaxSegOrders == 6

\* total_item_value of the drawn line items, in cents.
ItemCents == {5000, 10000, 10050, 10100, 50000, 50001}

SmallItemCents == {0, 50}

\* The fact rows of the customers of a drawn table: customer 1 has `orders`
\* orders of one line item each, the first worth `first`, the others `rest`,
\* and, with `extra`, a second line item in the first order; customer 2 has
\* one order of one item.
SegFacts(orders, first, rest, extra) ==
    [i \in 1..orders |->
        [customer_key |-> 1, order_key |-> i,
         total_item_value |-> IF i = 1 THEN first ELSE rest]]
    \o (IF extra THEN << [customer_key |-> 1, order_key |-> 1, total_item_value |-> rest] >>
        ELSE << >>)
    \o << [customer_key |-> 2, order_key |-> orders + 1, total_item_value |-> rest] >>

RECURSIVE SumValue(_, _)
SumValue(facts, I) ==
    IF I = {} THEN 0
    ELSE LET i == CHOOSE x \in I : TRUE
         IN  facts[i].total_item_value + SumValue(facts, I \ {i})

\* CTE customer_metrics: GROUP BY customer_key with COUNT(DISTINCT
\* f.order_key) and ROUND(SUM(f.total_item_value), 2).
customer_metrics(facts) ==
    {LET G == {i \in DOMAIN facts : facts[i].customer_key = c}
     IN  [customer_key |-> c,
          order_count |-> Cardinality({facts[i].order_key : i \in G}),
          total_spent |-> SumValue(facts, G)]
     : c \in {facts[i].customer_key : i \in DOMAIN facts}}

\* CASE WHEN order_count = 1 ... WHEN order_count BETWEEN 2 AND 5 ... WHEN
\* order_count > 5 ... END; a CASE without ELSE yields NULL when no branch
\* matches.
CustomerSegment(order_count) ==
    CASE order_count = 1 -> {"One-Time Customer"}
      [] order_count >= 2 /\ order_count <= 5 -> {"Regular Customer"}
      [] order_count > 5 -> {"Loyal Customer"}
      [] OTHER -> NULL

\* CASE WHEN total_spent <= 100 ... WHEN total_spent BETWEEN 101 AND 500 ...
\* WHEN total_spent > 500 ... END, on cents.
ValueSegment(total_spent) ==
    CASE total_spent <= 10000 -> {"Low Value"}
      [] total_spent >= 10100 /\ total_spent <= 50000 -> {"Medium Value"}
      [] total_spent > 50000 -> {"High Value"}
      [] OTHER -> NULL

\* CTE customer_segments.
customer_segments(facts) ==
    {[customer_key |-> m.customer_key, order_count |-> m.order_count,
      total_spent |-> m.total_spent,
      customer_segment |-> CustomerSegment(m.order_count),
      value_segment |-> ValueSegment(m.total_spent)] : m \in customer_metrics(facts)}

\* The final SELECT: customer_count per (customer_segment, value_segment).
CustomerSegmentationRows(facts) ==
    LET S == customer_segments(facts)
    IN  {[customer_segment |-> g[1], value_segment |-> g[2],
          customer_count |-> Cardinality({x \in S : x.customer_segment = g[1]
                                                    /\ x.value_segment = g[2]})]
         : g \in {<<x.customer_segment, x.value_segment>> : x \in S}}

SegInit ==
    /\ DashboardOff
    /\ cl = Unused /\ ld = Unused /\ kg = Unused
    /\ \E orders \in 1..MaxSegOrders, first \in ItemCents, rest \in SmallItemCents,
          extra \in BOOLEAN :
         ev = [facts |-> SegFacts(orders, first, rest, extra), query |-> "none",
               segments |-> {}, rows |-> {}]

EvalCustomerSegmentation ==
    /\ ev.query = "none"
    /\ ev' = [ev EXCEPT !.query = "get_customer_segmentation",
                        !.segments = customer_segments(ev.facts),
                        !.rows = CustomerSegmentationRows(ev.facts)]
    /\ UNCHANGED <<dashVars, sq, cl, ld, kg>>

SegNext == EvalCustomerSegmentation

SegSpec == SegInit /\ [][SegNext]_vars

\* C23 (as claimed): every customer with at least one order gets exactly one
\* behaviour segment and exactly one value segment, whatever its total_spent
\* in whole cents; no segment is null.
C23_EverySegmentAssigned ==
    ev.query = "get_customer_segmentation" =>
       /\ \A x \in ev.segments :
             /\ x.order_count >= 1
             /\ x.customer_segment # NULL
             /\ x.value_segment # NULL
       /\ \A r \in ev.rows : r.customer_segment # NULL /\ r.value_segment # NULL

(***************************************************************************)
(* Part 12.  The delivery statements evaluated on a fact table             *)
(* (get_delivery_patterns, get_delivery_time_distribution,                 *)
(* get_delivery_efficiency_analysis) and the delivery tab's overall rate.  *)
(***************************************************************************)

MaxDeliveryItems == 3

DeliveryOrders == 1..2

\* dim_orders rows: days_to_delivery (nullable) and is_delivered_on_time.
OrderChoices ==
    [days_to_delivery : {NULL, {3}, {25}}, is_delivered_on_time : BOOLEAN]

\* Line items: the order of each, in order_item_sk order.
ItemChoices == UNION {[1..n -> DeliveryOrders] : n \in 1..MaxDeliveryItems}

\* fact_sales joined with dim_orders, dim_customers and dim_sellers: one row
\* per line item, carrying its order's columns.
DeliveryJoin(items, orders, region2) ==
    [i \in DOMAIN items |->
        [order_item_sk |-> i, order_key |-> items[i],
         days_to_delivery |-> orders[items[i]].days_to_delivery,
         is_delivered_on_time |-> orders[items[i]].is_delivered_on_time,
         customer_region |-> IF items[i] = 1 THEN "Southeast" ELSE region2,
         seller_region |-> "Southeast"]]

\* WHERE o.days_to_delivery IS NOT NULL.
Delivered(joined) == {i \in DOMAIN joined : joined[i].days_to_delivery # NULL}

\* The CASE of get_delivery_time_distribution.
delivery_speed_category(days) ==
    IF days <= 5 THEN "Very Fast"
    ELSE IF days <= 10 THEN "Fast"
    ELSE IF days <= 20 THEN "Normal"
    ELSE IF days <= 30 THEN "Slow"
    ELSE "Very Slow"

\* The CASE of get_delivery_efficiency_analysis.
delivery_type(row) ==
    IF row.customer_region = row.seller_region THEN "Same Region" ELSE "Cross Region"

\* ROUND(SUM(CASE WHEN o.is_delivered_on_time THEN 1 ELSE 0 END) * 100.0
\*       / COUNT(DISTINCT f.order_key), 1), in tenths of a percent: the sum
\* runs over the rows of the group, the count over its distinct orders.
OnTimeRate(joined, G) ==
    Round1(Cardinality({i \in G : joined[i].is_delivered_on_time}),
           Cardinality({joined[i].order_key : i \in G}))

\* The aggregates of one group G of joined rows.
DeliveryAggregates(joined, G, key) ==
    [key |-> key,
     total_orders |-> Cardinality({joined[i].order_key : i \in G}),
     total_items |-> Cardinality(G),
     on_time_deliveries |-> Cardinality({i \in G : joined[i].is_delivered_on_time}),
     on_time_rate |-> OnTimeRate(joined, G)]

\* The rows of a delivery statement whose GROUP BY key is KeyOfRow.
DeliveryRows(joined, KeyOfRow(_)) ==
    LET W == Delivered(joined)
    IN  {DeliveryAggregates(joined, {i \in W : KeyOfRow(joined[i]) = k}, k)
         : k \in {KeyOfRow(joined[i]) : i \in W}}

DeliveryPatternsRows(joined) ==
    LET K(row) == row.customer_region IN DeliveryRows(joined, K)

DeliveryTimeDistributionRows(joined) ==
    LET K(row) == delivery_speed_category(Val(row.days_to_delivery))
    IN  DeliveryRows(joined, K)

DeliveryEfficiencyRows(joined) ==
    LET K(row) == <<row.customer_region, row.seller_region, delivery_type(row)>>
    IN  DeliveryRows(joined, K)

RECURSIVE SumField(_, _)
SumField(rows, field) ==
    IF rows = {} THEN 0
    ELSE LET r == CHOOSE x \in rows : TRUE
         IN  r[field] + SumField(rows \ {r}, field)

\* The delivery tab's KPI: total_orders = delivery_data['total_orders'].sum()
\* and overall_on_time_rate = on_time_deliveries.sum() / total_orders * 100
\* if total_orders > 0 else 0, as a fraction num / den.
overall_on_time_rate(delivery_data) ==
    LET total_orders == SumField(delivery_data, "total_orders")
    IN  IF total_orders > 0
        THEN [num |-> SumField(delivery_data, "on_time_deliveries") * 100, den |-> total_orders]
        ELSE [num |-> 0, den |-> 1]

DeliveryInit ==
    /\ DashboardOff
    /\ cl = Unused /\ ld = Unused /\ kg = Unused
    /\ \E items \in ItemChoices, orders \in [DeliveryOrders -> OrderChoices],
          region2 \in {"Southeast", "South"} :
         ev = [joined |-> DeliveryJoin(items, orders, region2), query |-> "none",
               rows |-> {}, overall |-> [num |-> 0, den |-> 1]]

DeliveryEvaluated(query, rows, overall) ==
    /\ ev.query = "none"
    /\ ev' = [ev EXCEPT !.query = query, !.rows = rows, !.overall = overall]
    /\ UNCHANGED <<dashVars, sq, cl, ld, kg>>

EvalDeliveryPatterns ==
    DeliveryEvaluated("get_delivery_patterns", DeliveryPatternsRows(ev.joined),
                      overall_on_time_rate(DeliveryPatternsRows(ev.joined)))

EvalDeliveryTimeDistribution ==
    DeliveryEvaluated("get_delivery_time_distribution",
                      DeliveryTimeDistributionRows(ev.joined), ev.overall)

EvalDeliveryEfficiency ==
    DeliveryEvaluated("get_delivery_efficiency_analysis",
                      DeliveryEfficiencyRows(ev.joined), ev.overall)

DeliveryNext ==
    EvalDeliveryPatterns \/ EvalDeliveryTimeDistribution \/ EvalDeliveryEfficiency

DeliverySpec == DeliveryInit /\ [][DeliveryNext]_vars

\* C24 (as claimed): every on-time rate the three delivery statements
\* report, and the overall on-time rate of the delivery tab, lies between 0
\* and 100, also when an order has several line items.
C24_OnTimeRateWithinBounds ==
    ev.query # "none" =>
       /\ \A r \in ev.rows : r.on_time_rate >= 0 /\ r.on_time_rate <= 1000
       /\ ev.overall.num >= 0 /\ ev.overall.num <= 100 * ev.overall.den

(***************************************************************************)
(* Part 13.  The review timing statement evaluated on a fact table         *)
(* (get_review_timing_analysis).                                           *)
(***************************************************************************)

MaxTimingRows == 2

\* dim_reviews: review_key -> days_to_review (nullable); the days sit on
\* both sides of each boundary of the CASE.
ReviewDays ==
    << NULL, {0 - 1}, {7}, {8}, {30}, {31}, {90}, {91} >>

\* review_key of a fact row: NULL, the key of a dim_reviews row, or a key
\* dim_reviews does not hold.
TimingReviewKeys == {NULL} \cup {{k} : k \in 1..(Len(ReviewDays) + 1)}

TimingFacts == UNION {[1..n -> TimingReviewKeys] : n \in 1..MaxTimingRows}

timing_category_exclusive(days) ==
    IF days < 7 THEN "Quick"
    ELSE IF days < 30 THEN "Normal (8-30 days)"
    ELSE IF days < 90 THEN "Delayed (31-90 days)"
    ELSE "Very Late"

\* CASE WHEN r.days_to_review <= 7 ... <= 30 ... <= 90 ... ELSE ... END; the
\* labels are 'Quick (<=7 days)' and 'Very Late (>90 days)' in the source.
timing_category(days) ==
    IF days <= 7 THEN "Quick"
    ELSE IF days <= 30 THEN "Normal (8-30 days)"
    ELSE IF days <= 90 THEN "Delayed (31-90 days)"
    ELSE "Very Late"

\* CTE review_timing: JOIN dim_reviews r ON f.review_key = r.review_key,
\* WHERE r.review_key IS NOT NULL AND r.days_to_review IS NOT NULL.
review_timing(facts) ==
    LET joined == {i \in DOMAIN facts :
                     /\ facts[i] # NULL
                     /\ Val(facts[i]) \in DOMAIN ReviewDays}
        kept == {i \in joined : ReviewDays[Val(facts[i])] # NULL}
    IN  {[order_item_sk |-> i,
          days_to_review |-> Val(ReviewDays[Val(facts[i])]),
          timing_category |-> timing_category(Val(ReviewDays[Val(facts[i])]))]
         : i \in kept}

\* SELECT timing_category, COUNT(*) ... GROUP BY timing_category.
ReviewTimingRows(facts) ==
    LET T == review_timing(facts)
    IN  {[timing_category |-> c,
          review_count |-> Cardinality({x \in T : x.timing_category = c})]
         : c \in {x.timing_category : x \in T}}

TimingInit ==
    /\ DashboardOff
    /\ cl = Unused /\ ld = Unused /\ kg = Unused
    /\ \E facts \in TimingFacts :
         ev = [facts |-> facts, query |-> "none", timing |-> {}, rows |-> {}]

EvalReviewTiming ==
    /\ ev.query = "none"
    /\ ev' = [ev EXCEPT !.query = "get_review_timing_analysis",
                        !.timing = review_timing(ev.facts),
                        !.rows = ReviewTimingRows(ev.facts)]
    /\ UNCHANGED <<dashVars, sq, cl, ld, kg>>

TimingNext == EvalReviewTiming

TimingSpec == TimingInit /\ [][TimingNext]_vars

\* The fact rows with a matching review whose days_to_review is not null.
Reviewed(facts) ==
    {i \in DOMAIN facts :
       /\ facts[i] # NULL
       /\ \E k \in DOMAIN ReviewDays : facts[i] = {k} /\ ReviewDays[k] # NULL}

DaysOf(facts, i) == Val(ReviewDays[Val(facts[i])])

\* The fact rows the statement puts in category c.
InCategory(c) == {x.order_item_sk : x \in {y \in ev.timing : y.timing_category = c}}

\* review_count of category c in the result, 0 when it has no row.
ReviewCount(c) ==
    IF \E r \in ev.rows : r.timing_category = c
    THEN (CHOOSE r \in ev.rows : r.timing_category = c).review_count
    ELSE 0

required_tables ==
    << "fact_sales", "dim_customers", "dim_products", "dim_sellers",
       "dim_orders", "dim_payments", "dim_reviews", "dim_date" >>

MaxValidateFaults == 1

\* COUNT(*) as count of a table.
RowCounts == {0, 1}

validate_table_noexcept(connCached, secrets, outcome, count) ==
    LET ex == execute_query(NoStatementYet.stmt, connCached, secrets, outcome)
    IN  [raised |-> ex.raised, logged |-> FALSE,
         status |-> ~ex.raised /\ ex.table.rows > 0 /\ count > 0,
         conn |-> ex.conn]

\* One turn of the loop of validate_marts_data: result = execute_query(query);
\* len(result) > 0 and result.iloc[0]['count'] > 0; `except Exception`:
\* logger.error, validation_results[table] = False.
validate_table(connCached, secrets, outcome, count) ==
    LET ex == execute_query(NoStatementYet.stmt, connCached, secrets, outcome)
    IN  [raised |-> FALSE, logged |-> ex.raised,
         status |-> IF ex.raised THEN FALSE ELSE ex.table.rows > 0 /\ count > 0,
         conn |-> ex.conn]

ValidateInit ==
    /\ DashboardOff
    /\ ev = Unused /\ ld = Unused /\ kg = Unused
    /\ \E secrets \in BOOLEAN, cached \in BOOLEAN :
         cl = [secrets |-> secrets, cached |-> cached /\ secrets, i |-> 1,
               validation_results |-> << >>, checks |-> << >>, faults |-> 0,
               returned |-> FALSE, raised |-> FALSE]

\* validate_marts_data: the turn of the loop for required_tables[i].
VmCheckTable ==
    /\ ~cl.returned /\ ~cl.raised
    /\ cl.i <= Len(required_tables)
    /\ \E outcome \in Outcomes, count \in RowCounts :
         /\ outcome # "rows" => cl.faults < MaxValidateFaults
         /\ outcome # "rows" => count = 1
         /\ LET table == required_tables[cl.i]
                res == validate_table(cl.cached, cl.secrets, outcome, count)
            IN  cl' = [cl EXCEPT
                         !.i = @ + 1,
                         !.cached = res.conn,
                         !.faults = @ + (IF outcome = "rows" THEN 0 ELSE 1),
                         !.raised = res.raised,
                         !.checks = Append(@, [table |-> table, outcome |-> outcome,
                                               count |-> count, cachedBefore |-> cl.cached,
                                               logged |-> res.logged]),
                         !.validation_results =
                            IF res.raised THEN @
                            ELSE [t \in (DOMAIN @) \cup {table} |->
                                    IF t = table THEN res.status ELSE @[t]]]
    /\ UNCHANGED <<dashVars, sq, ev, ld, kg>>

\* validate_marts_data: `return validation_results`.
VmReturn ==
    /\ ~cl.returned /\ ~cl.raised
    /\ cl.i > Len(required_tables)
    /\ cl' = [cl EXCEPT !.returned = TRUE]
    /\ UNCHANGED <<dashVars, sq, ev, ld, kg>>

ValidateNext == VmCheckTable \/ VmReturn

ValidateSpec == ValidateInit /\ [][ValidateNext]_vars

\* The count query of check c succeeded and returned a count above 0.
CountPositive(c) ==
    /\ ~InitFails(c) /\ ~QueryFails(c)
    /\ c.outcome # "zero"
    /\ c.count > 0

\* C30: validate_marts_data never raises; after the turn of a table the
\* table has a status, True iff its count query succeeded with a count
\* above 0, whatever happened at the other tables; the checks go on after a
\* failure, and the returned dictionary has a status for each of the 8
\* required tables.
C30_ValidateMarts ==
    /\ ~cl.raised
    /\ Len(cl.checks) = cl.i - 1
    /\ DOMAIN cl.validation_results = {required_tables[j] : j \in 1..(cl.i - 1)}
    /\ \A j \in DOMAIN cl.checks :
          LET c == cl.checks[j] IN
          /\ c.table = required_tables[j]
          /\ cl.validation_results[c.table] \in BOOLEAN
          /\ cl.validation_results[c.table] <=> CountPositive(c)
    /\ cl.returned =>
          /\ cl.i = Len(required_tables) + 1
          /\ Cardinality(DOMAIN cl.validation_results) = 8

C30_Witness ==
    /\ cl.returned
    /\ cl.checks[2].outcome = "query_fail"
    /\ ~cl.validation_results["dim_customers"]
    /\ cl.validation_results["fact_sales"]
    /\ cl.validation_results["dim_date"]
    /\ ~cl.validation_results["dim_reviews"]

====
